---- MODULE Spec2Model ----
(***************************************************************************)
(* A model of wasm-smith's core module generator                           *)
(* (crates/wasm-smith/src/core.rs): the heap-type subtype lattice, the     *)
(* type list with its rec groups and subtyping pool, and the population    *)
(* of imports, entities and exports under the type-size budget.            *)
(*                                                                         *)
(* Indices are 0-based as in the source; a Rust Vec v is a sequence and    *)
(* v[i] is written v[i + 1].  Option<u32>::None is NoSuper.                *)
(***************************************************************************)
EXTENDS Integers, Sequences, FiniteSets, TLC

VARIABLES
    pc,                 \* position of Module::build (or of a lattice query)
    err,                \* the Err returned by build, "none" while it runs
    cfg,                \* Module.config after sanitize
    types,              \* Module.types
    rec_groups,         \* Module.rec_groups, ranges [start, end)
    super_to_sub_types, \* Module.super_to_sub_types
    can_subtype,        \* Module.can_subtype
    array_types,        \* Module.array_types
    func_types,         \* Module.func_types
    struct_types,       \* Module.struct_types
    imports,            \* Module.imports
    num_imports,        \* Module.num_imports
    tags, funcs, tables, globals, memories,   \* the index spaces
    num_defined_tags, num_defined_funcs, num_defined_memories,
    defined_tables,     \* Module.defined_tables
    defined_globals,    \* Module.defined_globals (the indices)
    exports,            \* Module.exports
    export_names,       \* Module.export_names
    type_size,          \* Module.type_size
    loop_count,         \* iterations done by the running arbitrary_loop
    overbudget,         \* imports added although 1 + size exceeded the budget
    underflow,          \* max_type_size - type_size was evaluated below zero
    q_a, q_b, q_res,    \* a lattice query heap_type_is_sub_type(q_a, q_b)
    g_ty, g_allow, g_res,  \* a query globals_for_const_expr(g_ty, g_allow)
    n_call, n_ret,      \* the frame and the result of a call of one helper
    start,              \* Module.start, NoIndex for None
    elems,              \* Module.elems
    data,               \* Module.data
    code,               \* Module.code, one entry per function body
    interesting_values32, interesting_values64,
    twin_values32, twin_values64,  \* the tables of a second, equal build
    bad_loop            \* arbitrary_loop was called with min > max

typevars == <<types, rec_groups, super_to_sub_types, can_subtype,
              array_types, func_types, struct_types>>
entvars == <<tags, funcs, tables, globals, memories, num_defined_tags,
             num_defined_funcs, num_defined_memories, defined_tables,
             defined_globals>>
impvars == <<imports, num_imports>>
expvars == <<exports, export_names>>
qvars == <<q_a, q_b, q_res, g_ty, g_allow, g_res, n_call, n_ret>>
segvars == <<start, elems, data, code>>
valvars == <<interesting_values32, interesting_values64, twin_values32,
             twin_values64>>
vars == <<pc, err, cfg, typevars, impvars, entvars, expvars, type_size,
          loop_count, overbudget, underflow, qvars, segvars, valvars,
          bad_loop>>

(***************************************************************************)
(* Bounds of the model.                                                    *)
(***************************************************************************)
MaxTypes == 3            \* largest config.max_types of the small configs
MaxLatticeTypes == 2     \* longest type list of a lattice query
MaxEntities == 2         \* largest per-kind ceiling (max_funcs, ...)
MaxImports == 2          \* largest config.max_imports
MaxExports == 2          \* largest config.max_exports
MaxBudget == 5           \* largest config.max_type_size
ChainLen == 58           \* length of the deep template subtype chain
MaxChoiceBack == 2       \* u.choose reaches this far back in can_subtype
MaxRecGroups == 3        \* rec groups generated before type generation stops
MaxOffset == 2           \* largest constant offset of an element segment
MaxPower == 0            \* powers of two among the interesting values
MaxHashSeed == 1         \* seeds of a hash set's iteration order
MaxGlobalsLen == 3       \* globals of a module handed to globals_for_const_expr
MaxValue == 10           \* largest argument of a direct call of gradually_grow
MaxDraw == 4             \* the u32 drawn by gradually_grow, u32::MAX at this scale

NoSuper == 0 - 1

\* Option<u32>::None of Module.start and of an element segment's table.
NoIndex == 0 - 1

(***************************************************************************)
(* Heap types.                                                             *)
(***************************************************************************)
AbstractHeapType ==
    {"Func", "Extern", "Any", "None", "NoExtern", "NoFunc", "Eq", "Struct",
     "Array", "I31", "Exn", "NoExn", "Cont", "NoCont"}

Abstract(shared, ty) == [tag |-> "Abstract", shared |-> shared, ty |-> ty, idx |-> 0]

Concrete(idx) == [tag |-> "Concrete", shared |-> FALSE, ty |-> "-", idx |-> idx]

CompositeInnerType == {"Array", "Func", "Struct"}

ty(tys, idx) == tys[idx + 1]

is_shared_type(tys, index) == ty(tys, index).composite_type.shared

(***************************************************************************)
(* heap_type_is_sub_type, arm by arm.                                      *)
(***************************************************************************)
abstract_match_NoSharedCheck(a_shared, a_ty, b_shared, b_ty) ==
    \/ a_ty \in {"Eq", "I31", "Struct", "Array", "None"} /\ b_ty = "Any"
    \/ a_ty \in {"I31", "Struct", "Array", "None"} /\ b_ty = "Eq"
    \/ a_ty = "NoExtern" /\ b_ty = "Extern"
    \/ a_ty = "NoFunc" /\ b_ty = "Func"
    \/ a_ty = "None" /\ b_ty \in {"I31", "Array", "Struct"}
    \/ a_ty = "NoExn" /\ b_ty = "Exn"

abstract_match_EqUnderStruct(a_shared, a_ty, b_shared, b_ty) ==
    /\ a_shared = b_shared
    /\ \/ a_ty \in {"Eq", "I31", "Struct", "Array", "None"} /\ b_ty = "Any"
       \/ a_ty \in {"I31", "Struct", "Array", "None"} /\ b_ty = "Eq"
       \/ a_ty = "Eq" /\ b_ty = "Struct"
       \/ a_ty = "NoExtern" /\ b_ty = "Extern"
       \/ a_ty = "NoFunc" /\ b_ty = "Func"
       \/ a_ty = "None" /\ b_ty \in {"I31", "Array", "Struct"}
       \/ a_ty = "NoExn" /\ b_ty = "Exn"

abstract_match(a_shared, a_ty, b_shared, b_ty) ==
    /\ a_shared = b_shared
    /\ \/ a_ty \in {"Eq", "I31", "Struct", "Array", "None"} /\ b_ty = "Any"
       \/ a_ty \in {"I31", "Struct", "Array", "None"} /\ b_ty = "Eq"
       \/ a_ty = "NoExtern" /\ b_ty = "Extern"
       \/ a_ty = "NoFunc" /\ b_ty = "Func"
       \/ a_ty = "None" /\ b_ty \in {"I31", "Array", "Struct"}
       \/ a_ty = "NoExn" /\ b_ty = "Exn"

concrete_abstract_match(a_ty, shared, b) ==
    IF a_ty.shared # shared THEN FALSE
    ELSE CASE b \in {"Eq", "Any"} -> a_ty.inner \in {"Array", "Struct"}
           [] b = "Struct" -> a_ty.inner = "Struct"
           [] b = "Array" -> a_ty.inner = "Array"
           [] b = "Func" -> a_ty.inner = "Func"
           [] OTHER -> FALSE

abstract_concrete_match(shared, a, b_ty) ==
    IF shared # b_ty.shared THEN FALSE
    ELSE CASE a = "None" -> b_ty.inner \in {"Array", "Struct"}
           [] a = "NoFunc" -> b_ty.inner = "Func"
           [] OTHER -> FALSE

RECURSIVE concrete_concrete_match(_, _, _)
concrete_concrete_match(tys, a, b) ==
    IF a = b THEN TRUE
    ELSE IF ty(tys, a).supertype # NoSuper
         THEN concrete_concrete_match(tys, ty(tys, a).supertype, b)
         ELSE FALSE

heap_type_is_sub_type(tys, a, b) ==
    IF a = b THEN TRUE
    ELSE CASE a.tag = "Abstract" /\ b.tag = "Abstract" ->
                  abstract_match(a.shared, a.ty, b.shared, b.ty)
           [] a.tag = "Concrete" /\ b.tag = "Abstract" ->
                  concrete_abstract_match(ty(tys, a.idx).composite_type, b.shared, b.ty)
           [] a.tag = "Abstract" /\ b.tag = "Concrete" ->
                  abstract_concrete_match(a.shared, a.ty, ty(tys, b.idx).composite_type)
           [] OTHER -> concrete_concrete_match(tys, a.idx, b.idx)

(***************************************************************************)
(* The type list.  A SubType is                                            *)
(*   [is_final, supertype, composite_type |-> [inner, shared, params,      *)
(*    results], depth];                                                    *)
(* params and results are the signature of a Func and empty otherwise.     *)
(* The fields below are the part of Module that add_type maintains;        *)
(* super_to_sub_types is kept as one Vec per type index, empty when the    *)
(* map has no entry; panic records a failed assertion.                     *)
(***************************************************************************)
MAX_SUBTYPING_DEPTH == 60

ValTypes == {"I32"}

NoSig == [params |-> <<>>, results |-> <<>>]

FuncSigs ==
    {[params |-> <<>>, results |-> <<>>],
     [params |-> <<"I32">>, results |-> <<>>],
     [params |-> <<"I32">>, results |-> <<"I32">>]}

CompositeType(inner, shared, sig) ==
    [inner |-> inner, shared |-> shared,
     params |-> sig.params, results |-> sig.results]

SubType(is_final, supertype, composite_type, depth) ==
    [is_final |-> is_final, supertype |-> supertype,
     composite_type |-> composite_type, depth |-> depth]

EmptyTypes ==
    [types |-> <<>>, rec_groups |-> <<>>, super_to_sub_types |-> <<>>,
     can_subtype |-> <<>>, array_types |-> <<>>, func_types |-> <<>>,
     struct_types |-> <<>>, panic |-> FALSE]

TypeState ==
    [types |-> types, rec_groups |-> rec_groups,
     super_to_sub_types |-> super_to_sub_types, can_subtype |-> can_subtype,
     array_types |-> array_types, func_types |-> func_types,
     struct_types |-> struct_types, panic |-> FALSE]

SetTypeState(T) ==
    /\ types' = T.types
    /\ rec_groups' = T.rec_groups
    /\ super_to_sub_types' = T.super_to_sub_types
    /\ can_subtype' = T.can_subtype
    /\ array_types' = T.array_types
    /\ func_types' = T.func_types
    /\ struct_types' = T.struct_types

Range(first, end) == [start |-> first, end |-> end]

can_subtype_after_NoDepthCheck(pool, t, index) ==
    IF ~t.is_final THEN Append(pool, index) ELSE pool

can_subtype_after_FinalToo(pool, t, index) ==
    IF t.depth < MAX_SUBTYPING_DEPTH THEN Append(pool, index) ELSE pool

can_subtype_after(pool, t, index) ==
    IF ~t.is_final /\ t.depth < MAX_SUBTYPING_DEPTH
    THEN Append(pool, index) ELSE pool

add_type(T, t) ==
    LET index == Len(T.types)
        shared_ok == t.supertype = NoSuper
                     \/ is_shared_type(T.types, t.supertype) = t.composite_type.shared
        subs == IF t.supertype # NoSuper
                THEN [T.super_to_sub_types EXCEPT ![t.supertype + 1] = Append(@, index)]
                ELSE T.super_to_sub_types
    IN  [types |-> Append(T.types, t),
         rec_groups |-> T.rec_groups,
         super_to_sub_types |-> Append(subs, <<>>),
         can_subtype |-> can_subtype_after(T.can_subtype, t, index),
         array_types |-> IF t.composite_type.inner = "Array"
                         THEN Append(T.array_types, index) ELSE T.array_types,
         func_types |-> IF t.composite_type.inner = "Func"
                        THEN Append(T.func_types, index) ELSE T.func_types,
         struct_types |-> IF t.composite_type.inner = "Struct"
                          THEN Append(T.struct_types, index) ELSE T.struct_types,
         panic |-> T.panic \/ ~shared_ok]

push_rec_group_Shifted(T, first, end) ==
    [T EXCEPT !.rec_groups = Append(@, Range(first + 1, end + 1))]

push_rec_group(T, first, end) ==
    [T EXCEPT !.rec_groups = Append(@, Range(first, end))]

(***************************************************************************)
(* arbitrary_sub_type under one decision d of the oracle:                  *)
(*   d.sub      ratio(1, 32) came out true                                 *)
(*   d.choice   the entry u.choose picks in can_subtype, from the newest   *)
(*   d.is_final, d.inner, d.shared, d.sig  the freshly drawn parts.        *)
(***************************************************************************)
sub_depth_One(T, supertype) == 1

sub_depth_Same(T, supertype) == ty(T.types, supertype).depth

sub_depth(T, supertype) == 1 + ty(T.types, supertype).depth

\* u.choose(&self.can_subtype); choice counts from the newest entry.
sub_supertype(T, choice) == T.can_subtype[Len(T.can_subtype) - choice]

arbitrary_sub_type_of_super_type(T, d) ==
    LET supertype == sub_supertype(T, d.choice)
    IN  SubType(d.is_final, supertype,
                ty(T.types, supertype).composite_type,
                sub_depth(T, supertype))

arbitrary_sub_type_NotFinal(c, T, d) ==
    IF ~c.gc_enabled
    THEN SubType(FALSE, NoSuper, CompositeType("Func", d.shared, d.sig), 1)
    ELSE IF Len(T.can_subtype) > 0 /\ d.sub
         THEN arbitrary_sub_type_of_super_type(T, d)
         ELSE SubType(d.is_final, NoSuper,
                      CompositeType(d.inner, d.shared, d.sig), 1)

arbitrary_sub_type(c, T, d) ==
    IF ~c.gc_enabled
    THEN SubType(TRUE, NoSuper, CompositeType("Func", d.shared, d.sig), 1)
    ELSE IF Len(T.can_subtype) > 0 /\ d.sub
         THEN arbitrary_sub_type_of_super_type(T, d)
         ELSE SubType(d.is_final, NoSuper,
                      CompositeType(d.inner, d.shared, d.sig), 1)

FreshDecisions(c) ==
    {[sub |-> FALSE, choice |-> 0, is_final |-> f, inner |-> "Func",
      shared |-> s, sig |-> g] :
        f \in BOOLEAN, s \in {FALSE, c.shared_everything_threads_enabled},
        g \in c.sigs}
    \cup
    {[sub |-> FALSE, choice |-> 0, is_final |-> f, inner |-> i,
      shared |-> s, sig |-> NoSig] :
        f \in BOOLEAN, s \in {FALSE, c.shared_everything_threads_enabled},
        i \in c.composites}

SubDecisions(c) ==
    {[sub |-> TRUE, choice |-> k, is_final |-> f, inner |-> "Func",
      shared |-> FALSE, sig |-> NoSig] :
        k \in 0..MaxChoiceBack, f \in BOOLEAN}

\* What the oracle can answer in one call of arbitrary_sub_type.
Decisions(c) ==
    IF c.gc_enabled THEN FreshDecisions(c) \cup SubDecisions(c)
    ELSE {d \in FreshDecisions(c) : d.is_final /\ d.inner = "Func"}

\* The decision is one the oracle can give in this state.
DecisionFits(T, d) == d.sub => d.choice < Len(T.can_subtype)

RECURSIVE add_sub_types(_, _, _)
add_sub_types(c, T, ds) ==
    IF ds = <<>> THEN T
    ELSE LET T1 == add_type(T, arbitrary_sub_type(c, T, Head(ds)))
         IN  IF Len(T1.types) > 0 THEN add_sub_types(c, T1, Tail(ds)) ELSE T1

RECURSIVE DecisionsFit(_, _, _)
DecisionsFit(c, T, ds) ==
    IF ds = <<>> THEN TRUE
    ELSE /\ DecisionFits(T, Head(ds))
         /\ LET T1 == add_type(T, arbitrary_sub_type(c, T, Head(ds)))
            IN  Len(T1.types) > 0 /\ DecisionsFit(c, T1, Tail(ds))

\* arbitrary_rec_group without the cloning branch: the group of the
\* sub types drawn by ds.
new_rec_group(c, T, ds) ==
    LET rec_group_start == Len(T.types)
        T1 == add_sub_types(c, T, ds)
    IN  push_rec_group(T1, rec_group_start, Len(T1.types))

RECURSIVE clone_types(_, _, _)
clone_types(T, index, end) ==
    IF index >= end THEN T
    ELSE LET T1 == add_type(T, ty(T.types, index))
         IN  IF Len(T1.types) > 0 THEN clone_types(T1, index + 1, end) ELSE T1

\* clone_rec_group for the chosen group; allow_empty is kind = Yes.
clone_rec_group(c, T, group, allow_empty) ==
    IF group.end = group.start /\ ~allow_empty THEN T
    ELSE IF group.end - group.start >
            (IF c.max_types >= Len(T.types) THEN c.max_types - Len(T.types) ELSE 0)
         THEN T
         ELSE LET new_rec_group_start == Len(T.types)
                  T1 == clone_types(T, group.start, group.end)
              IN  push_rec_group(T1, new_rec_group_start, Len(T1.types))

(***************************************************************************)
(* Entities, imports and exports.  An EntityType is                        *)
(*   [kind, idx, sig, ty]                                                  *)
(* where idx and sig are the type index and signature of a Func or Tag     *)
(* and ty describes a Global, Table or Memory.  The record M below holds   *)
(* the part of Module that the import, entity and export steps maintain.   *)
(***************************************************************************)
ExportKind == {"Func", "Table", "Memory", "Global", "Tag"}

GlobalTypes == {"i32", "mut i32"}

TableTypes == {"funcref 1"}

MemoryTypes == {"mem 1"}

EntityFunc(idx, sig) == [kind |-> "Func", idx |-> idx, sig |-> sig, ty |-> "-"]

EntityTag(idx, sig) == [kind |-> "Tag", idx |-> idx, sig |-> sig, ty |-> "-"]

EntityOther(kind, t) == [kind |-> kind, idx |-> 0, sig |-> NoSig, ty |-> t]

size_FuncFlat(e) == 1

size_NoBase(e) ==
    IF e.kind = "Func" THEN Len(e.sig.params) + Len(e.sig.results) ELSE 1

size(e) ==
    IF e.kind \in {"Tag", "Global", "Table", "Memory"} THEN 1
    ELSE 1 + (Len(e.sig.params) + Len(e.sig.results))

EmptyModule ==
    [imports |-> <<>>, num_imports |-> 0, tags |-> <<>>, funcs |-> <<>>,
     tables |-> <<>>, globals |-> <<>>, memories |-> <<>>,
     num_defined_tags |-> 0, num_defined_funcs |-> 0,
     num_defined_memories |-> 0, defined_tables |-> 0,
     defined_globals |-> <<>>, exports |-> <<>>, export_names |-> {},
     type_size |-> 0, overbudget |-> 0, underflow |-> FALSE, err |-> "none"]

ModuleState ==
    [imports |-> imports, num_imports |-> num_imports, tags |-> tags,
     funcs |-> funcs, tables |-> tables, globals |-> globals,
     memories |-> memories, num_defined_tags |-> num_defined_tags,
     num_defined_funcs |-> num_defined_funcs,
     num_defined_memories |-> num_defined_memories,
     defined_tables |-> defined_tables, defined_globals |-> defined_globals,
     exports |-> exports, export_names |-> export_names,
     type_size |-> type_size, overbudget |-> overbudget,
     underflow |-> underflow, err |-> err]

SetModuleState(M) ==
    /\ imports' = M.imports
    /\ num_imports' = M.num_imports
    /\ tags' = M.tags
    /\ funcs' = M.funcs
    /\ tables' = M.tables
    /\ globals' = M.globals
    /\ memories' = M.memories
    /\ num_defined_tags' = M.num_defined_tags
    /\ num_defined_funcs' = M.num_defined_funcs
    /\ num_defined_memories' = M.num_defined_memories
    /\ defined_tables' = M.defined_tables
    /\ defined_globals' = M.defined_globals
    /\ exports' = M.exports
    /\ export_names' = M.export_names
    /\ type_size' = M.type_size
    /\ overbudget' = M.overbudget
    /\ underflow' = M.underflow

Import(module, field, entity_type) ==
    [module |-> module, field |-> field, entity_type |-> entity_type]

Export(name, kind, index) == [name |-> name, kind |-> kind, index |-> index]

\* The match that pushes an imported entity into its index space.
push_entity(M, e) ==
    CASE e.kind = "Tag" -> [M EXCEPT !.tags = Append(@, [func_type_idx |-> e.idx, func_type |-> e.sig])]
      [] e.kind = "Func" -> [M EXCEPT !.funcs = Append(@, [ty |-> e.idx, sig |-> e.sig])]
      [] e.kind = "Global" -> [M EXCEPT !.globals = Append(@, e.ty)]
      [] e.kind = "Table" -> [M EXCEPT !.tables = Append(@, e.ty)]
      [] OTHER -> [M EXCEPT !.memories = Append(@, e.ty)]

push_import(M, module, field, e) ==
    [M EXCEPT !.imports = Append(@, Import(module, field, e)),
              !.num_imports = @ + 1]

\* An import is added: count it when its cost 1 + size does not fit the
\* budget that is left.
note_budget(M, c, e) ==
    IF M.type_size + 1 + size(e) > c.max_type_size
    THEN [M EXCEPT !.overbudget = @ + 1] ELSE M

\* max_type_size - type_size is evaluated (u32).
note_subtraction(M, c) ==
    IF M.type_size > c.max_type_size THEN [M EXCEPT !.underflow = TRUE] ELSE M

add_arbitrary_global_of_type(M, t) ==
    [M EXCEPT !.globals = Append(@, t),
              !.defined_globals = Append(@, Len(M.globals))]

add_arbitrary_memory_of_type(M, t) ==
    [M EXCEPT !.num_defined_memories = @ + 1, !.memories = Append(@, t)]

add_arbitrary_table_of_type(M, t) ==
    [M EXCEPT !.tables = Append(@, t), !.defined_tables = @ + 1]

add_defined_func(M, idx, sig) ==
    [M EXCEPT !.funcs = Append(@, [ty |-> idx, sig |-> sig]),
              !.num_defined_funcs = @ + 1]

add_defined_tag(M, idx, sig) ==
    [M EXCEPT !.tags = Append(@, [func_type_idx |-> idx, func_type |-> sig]),
              !.num_defined_tags = @ + 1]

type_of(M, kind, index) ==
    CASE kind = "Global" -> EntityOther("Global", M.globals[index + 1])
      [] kind = "Memory" -> EntityOther("Memory", M.memories[index + 1])
      [] kind = "Table" -> EntityOther("Table", M.tables[index + 1])
      [] kind = "Func" -> EntityFunc(0, M.funcs[index + 1].sig)
      [] OTHER -> EntityTag(M.tags[index + 1].func_type_idx, M.tags[index + 1].func_type)

export_charge_None(M, kind, idx) == 0

export_charge(M, kind, idx) == 1 + size(type_of(M, kind, idx))

add_arbitrary_export_NoCheck(M, c, name, kind, idx) ==
    LET ts == M.type_size + export_charge(M, kind, idx)
    IN  [M EXCEPT !.type_size = ts, !.exports = Append(@, Export(name, kind, idx))]

add_arbitrary_export_Rollback(M, c, name, kind, idx) ==
    LET ts == M.type_size + export_charge(M, kind, idx)
    IN  IF ts <= c.max_type_size
        THEN [M EXCEPT !.type_size = ts,
                       !.exports = Append(@, Export(name, kind, idx))]
        ELSE [M EXCEPT !.err = "IncorrectFormat"]

add_arbitrary_export(M, c, name, kind, idx) ==
    LET ts == M.type_size + export_charge(M, kind, idx)
    IN  IF ts <= c.max_type_size
        THEN [M EXCEPT !.type_size = ts,
                       !.exports = Append(@, Export(name, kind, idx))]
        ELSE [M EXCEPT !.type_size = ts, !.err = "IncorrectFormat"]

(***************************************************************************)
(* Strings are sequences of one-character strings.                         *)
(***************************************************************************)
Digit(n) ==
    CASE n = 0 -> "0" [] n = 1 -> "1" [] n = 2 -> "2" [] n = 3 -> "3"
      [] n = 4 -> "4" [] n = 5 -> "5" [] n = 6 -> "6" [] n = 7 -> "7"
      [] n = 8 -> "8" [] OTHER -> "9"

\* write!(s, "{}", n) for n < 100
Decimal(n) == IF n < 10 THEN <<Digit(n)>> ELSE <<Digit(n \div 10), Digit(n % 10)>>

RECURSIVE unique_string(_, _)
unique_string(names, name) ==
    IF name \in names
    THEN unique_string(names, name \o Decimal(Cardinality(names)))
    ELSE name

\* limited_string: the strings the oracle is asked for.
BaseNames == {<<"a">>, <<"a", "1">>}

(***************************************************************************)
(* Template modules, as parsed: the type section (rec group sizes and sub  *)
(* types as converted, depth 1), the import section, the sections of       *)
(* defined entities and the export section.  Every template is a valid     *)
(* module.                                                                 *)
(***************************************************************************)
NoTemplate ==
    [present |-> FALSE, recgrps |-> <<>>, types |-> <<>>, imports |-> <<>>,
     funcs |-> <<>>, tags |-> <<>>, tables |-> <<>>, memories |-> <<>>,
     globals |-> <<>>, exports |-> <<>>]

TFunc(sig) == SubType(TRUE, NoSuper, CompositeType("Func", FALSE, sig), 1)

SigI == [params |-> <<"I32">>, results |-> <<>>]

SigII == [params |-> <<"I32">>, results |-> <<"I32">>]

TImport(module, field, kind, idx, t) ==
    [module |-> module, field |-> field, kind |-> kind, idx |-> idx, ty |-> t]

\* A shape: two function types, a function and a global imported, a
\* function and a global defined, three exports.
ShapeTemplate ==
    [present |-> TRUE, recgrps |-> <<1, 1>>,
     types |-> <<TFunc(NoSig), TFunc(SigII)>>,
     imports |-> <<TImport(<<"e">>, <<"f">>, "Func", 1, "-"),
                   TImport(<<"e">>, <<"g">>, "Global", 0, "i32")>>,
     funcs |-> <<0>>, tags |-> <<>>, tables |-> <<>>, memories |-> <<"mem 1">>,
     globals |-> <<"mut i32">>,
     exports |-> <<Export(<<"a">>, "Func", 0), Export(<<"b">>, "Func", 1),
                   Export(<<"c">>, "Global", 1), Export(<<"m">>, "Memory", 0)>>]

\* A shape whose types form a rec group with a subtype edge.
ShapeTemplateGc ==
    [present |-> TRUE, recgrps |-> <<2, 1>>,
     types |-> <<SubType(FALSE, NoSuper, CompositeType("Struct", FALSE, NoSig), 1),
                 SubType(FALSE, 0, CompositeType("Struct", FALSE, NoSig), 1),
                 SubType(TRUE, 1, CompositeType("Struct", FALSE, NoSig), 1)>>,
     imports |-> <<TImport(<<"e">>, <<"t">>, "Table", 0, "funcref 1")>>,
     funcs |-> <<>>, tags |-> <<>>, tables |-> <<>>, memories |-> <<>>,
     globals |-> <<>>,
     exports |-> <<Export(<<"t">>, "Table", 0)>>]

\* The imports on offer: a function, a table, a global and a tag.
AvailTemplate ==
    [present |-> TRUE, recgrps |-> <<1, 1>>,
     types |-> <<TFunc(SigI), TFunc(SigII)>>,
     imports |-> <<TImport(<<"e">>, <<"p">>, "Func", 1, "-"),
                   TImport(<<"e">>, <<"t">>, "Table", 0, "funcref 1"),
                   TImport(<<"v">>, <<"g">>, "Global", 0, "i32"),
                   TImport(<<"t">>, <<"x">>, "Tag", 0, "-")>>,
     funcs |-> <<>>, tags |-> <<>>, tables |-> <<>>, memories |-> <<>>,
     globals |-> <<>>, exports |-> <<>>]

RECURSIVE ChainTypes(_)
ChainTypes(n) ==
    IF n = 0 THEN <<>>
    ELSE Append(ChainTypes(n - 1),
                SubType(FALSE, IF n = 1 THEN NoSuper ELSE n - 2,
                        CompositeType("Struct", FALSE, NoSig), 1))

\* A template whose types are one chain of n struct types, each a
\* subtype of the one before it, all in one rec group.
ChainTemplate(n) ==
    [present |-> TRUE, recgrps |-> <<n>>, types |-> ChainTypes(n),
     imports |-> <<TImport(<<"e">>, <<"m">>, "Memory", 0, "mem 1")>>,
     funcs |-> <<>>, tags |-> <<>>, tables |-> <<>>, memories |-> <<>>,
     globals |-> <<>>, exports |-> <<>>]

\* The exports of a required-exports template with the entity type the
\* validator reports for each: [name, kind, sig, shared, ty].
RExport(name, kind, sig, t) ==
    [name |-> name, kind |-> kind, sig |-> sig, shared |-> FALSE, ty |-> t]

ExportsTemplate ==
    [present |-> TRUE,
     exports |-> <<RExport(<<"a">>, "Func", SigII, "-"),
                   RExport(<<"g">>, "Global", NoSig, "i32"),
                   RExport(<<"x">>, "Tag", SigI, "-"),
                   RExport(<<"m">>, "Memory", NoSig, "mem 1"),
                   RExport(<<"t">>, "Table", NoSig, "funcref 1")>>]

NoExports == [present |-> FALSE, exports |-> <<>>]

(***************************************************************************)
(* Configurations.                                                         *)
(***************************************************************************)
BaseConfig ==
    [gc_enabled |-> FALSE, shared_everything_threads_enabled |-> FALSE,
     exceptions_enabled |-> FALSE, min_types |-> 0, max_types |-> 0,
     min_imports |-> 0, max_imports |-> 0, min_tags |-> 0, max_tags |-> 0,
     min_funcs |-> 0, max_funcs |-> 0, min_tables |-> 0, max_tables |-> 0,
     min_memories |-> 0, max_memories |-> 0, min_globals |-> 0,
     max_globals |-> 0, min_exports |-> 0, max_exports |-> 0,
     export_everything |-> FALSE, max_type_size |-> MaxBudget,
     module_shape |-> NoTemplate, available_imports |-> NoTemplate,
     exports |-> NoExports, sigs |-> {NoSig},
     composites |-> {"Array", "Struct"},
     allow_start_export |-> FALSE, bulk_memory_enabled |-> FALSE,
     reference_types_enabled |-> FALSE, disallow_traps |-> FALSE,
     min_element_segments |-> 0, max_element_segments |-> 0,
     min_elements |-> 0, max_elements |-> 0,
     min_data_segments |-> 0, max_data_segments |-> 0]

\* GC types only: rec groups, clones and subtypes.
GcConfig ==
    [BaseConfig EXCEPT !.gc_enabled = TRUE, !.min_types = 1,
                       !.max_types = MaxTypes, !.composites = {"Struct"}]

\* Shared types next to unshared ones.
SharedConfig ==
    [BaseConfig EXCEPT !.gc_enabled = TRUE,
                       !.shared_everything_threads_enabled = TRUE,
                       !.max_types = 2]

PlainBase ==
    [BaseConfig EXCEPT !.min_types = 1, !.max_types = 2,
                       !.exceptions_enabled = TRUE, !.sigs = {NoSig, SigII},
                       !.max_tags = 1, !.max_funcs = MaxEntities,
                       !.max_globals = 1, !.max_memories = 1,
                       !.max_tables = 1]

\* Plain generation without GC: imports, entities and exports.
PlainConfigs ==
    {[PlainBase EXCEPT !.max_imports = MaxImports, !.max_funcs = 1,
                       !.max_type_size = b] :
        b \in {2, MaxBudget}}
    \cup
    {[PlainBase EXCEPT !.max_imports = 1, !.max_exports = MaxExports,
                       !.max_tags = 0, !.max_globals = 0,
                       !.export_everything = e, !.max_type_size = b] :
        e \in BOOLEAN, b \in {3, MaxBudget}}

\* A module shape; it is given alone, without the other two templates.
ShapeConfigs ==
    {[BaseConfig EXCEPT !.module_shape = t,
                        !.gc_enabled = (t = ShapeTemplateGc),
                        !.max_types = Len(t.types) + 1,
                        !.max_type_size = 4 * MaxBudget,
                        !.max_imports = MaxImports + 2,
                        !.max_exports = MaxExports + 4,
                        !.max_funcs = MaxEntities, !.max_globals = MaxEntities,
                        !.max_tables = 1, !.max_memories = 1] :
        t \in {ShapeTemplate, ShapeTemplateGc}}

\* Available imports, with and without required exports.
AvailConfigs ==
    {[BaseConfig EXCEPT !.available_imports = AvailTemplate,
                        !.exceptions_enabled = TRUE,
                        !.exports = x, !.max_types = 2,
                        !.max_exports = IF x.present THEN 1 ELSE 0,
                        !.max_imports = MaxImports + 4,
                        !.max_tags = 1, !.max_funcs = MaxEntities,
                        !.max_globals = 1, !.max_tables = 1,
                        !.max_memories = 1, !.max_type_size = b] :
        x \in {NoExports, ExportsTemplate}, b \in {1, MaxBudget}}

\* A deep chain from a template, extended by generated types.
DeepConfig ==
    [BaseConfig EXCEPT !.available_imports = ChainTemplate(ChainLen),
                       !.gc_enabled = TRUE, !.max_memories = 1,
                       !.max_types = ChainLen + 2]

\* Start function, element segments and data segments over one function
\* type, with an imported global on offer for the offsets.
SegmentBase ==
    [BaseConfig EXCEPT !.min_types = 2, !.max_types = 2, !.max_imports = 1,
                       !.max_funcs = 1, !.max_tables = 1, !.max_memories = 1,
                       !.max_globals = 1, !.allow_start_export = TRUE,
                       !.max_element_segments = 1, !.max_elements = 1,
                       !.max_data_segments = 1]

SegmentConfigs ==
    {[SegmentBase EXCEPT !.bulk_memory_enabled = TRUE,
                         !.reference_types_enabled = TRUE],
     [SegmentBase EXCEPT !.min_elements = 1, !.max_exports = 1],
     [SegmentBase EXCEPT !.disallow_traps = TRUE, !.min_tables = 1,
                         !.min_element_segments = 1]}

Configs ==
    {GcConfig, SharedConfig, DeepConfig}
    \cup PlainConfigs \cup ShapeConfigs \cup AvailConfigs
    \cup SegmentConfigs

(***************************************************************************)
(* Copying a template's types: the sub types are converted with depth 1    *)
(* and the depth is then set from the supertype's.                         *)
(***************************************************************************)
RECURSIVE template_types(_, _)
template_types(raw, acc) ==
    IF raw = <<>> THEN acc
    ELSE LET t == Head(raw)
             fixed == IF t.supertype # NoSuper
                      THEN [t EXCEPT !.depth = acc[t.supertype + 1].depth + 1]
                      ELSE t
         IN  template_types(Tail(raw), Append(acc, fixed))

RECURSIVE push_recgrps(_, _, _)
push_recgrps(T, recgrp_start_idx, sizes) ==
    IF sizes = <<>> THEN T
    ELSE push_recgrps(push_rec_group(T, recgrp_start_idx, recgrp_start_idx + Head(sizes)),
                      recgrp_start_idx + Head(sizes), Tail(sizes))

RECURSIVE add_types(_, _)
add_types(T, tys) ==
    IF tys = <<>> THEN T
    ELSE LET T1 == add_type(T, Head(tys))
         IN  IF Len(T1.types) > 0 THEN add_types(T1, Tail(tys)) ELSE T1

copy_template_types(T, tpl) ==
    add_types(push_recgrps(T, Len(T.types), tpl.recgrps),
              template_types(tpl.types, <<>>))

\* The entity type of a template import, resolved against the
\* template's own type list.
template_entity(tys, im) ==
    CASE im.kind = "Func" ->
             EntityFunc(im.idx, [params |-> tys[im.idx + 1].composite_type.params,
                                 results |-> tys[im.idx + 1].composite_type.results])
      [] im.kind = "Tag" ->
             EntityTag(im.idx, [params |-> tys[im.idx + 1].composite_type.params,
                                results |-> tys[im.idx + 1].composite_type.results])
      [] OTHER -> EntityOther(im.kind, im.ty)

(***************************************************************************)
(* _imports_exports_from_module_shape                                      *)
(***************************************************************************)
RECURSIVE shape_imports(_, _, _)
shape_imports(M, tys, ims) ==
    IF ims = <<>> THEN M
    ELSE LET e == template_entity(tys, Head(ims))
         IN  shape_imports(push_import(push_entity(M, e), Head(ims).module,
                                       Head(ims).field, e),
                           tys, Tail(ims))

RECURSIVE imported_of(_, _)
imported_of(ims, kind) ==
    IF ims = <<>> THEN <<>>
    ELSE IF Head(ims).kind = kind
         THEN <<IF kind \in {"Func", "Tag"} THEN Head(ims).idx ELSE Head(ims).ty>>
              \o imported_of(Tail(ims), kind)
         ELSE imported_of(Tail(ims), kind)

shape_export_entity(M, tys, tpl, ex) ==
    LET available_funcs == imported_of(tpl.imports, "Func") \o tpl.funcs
        available_tags == imported_of(tpl.imports, "Tag") \o tpl.tags
        available_tables == imported_of(tpl.imports, "Table") \o tpl.tables
        available_globals == imported_of(tpl.imports, "Global") \o tpl.globals
        available_memories == imported_of(tpl.imports, "Memory") \o tpl.memories
        sig(i) == [params |-> tys[i + 1].composite_type.params,
                   results |-> tys[i + 1].composite_type.results]
    IN  CASE ex.kind = "Func" ->
                 add_defined_func(M, available_funcs[ex.index + 1],
                                  sig(available_funcs[ex.index + 1]))
          [] ex.kind = "Tag" ->
                 add_defined_tag(M, available_tags[ex.index + 1],
                                 sig(available_tags[ex.index + 1]))
          [] ex.kind = "Table" ->
                 add_arbitrary_table_of_type(M, available_tables[ex.index + 1])
          [] ex.kind = "Memory" ->
                 add_arbitrary_memory_of_type(M, available_memories[ex.index + 1])
          [] OTHER ->
                 add_arbitrary_global_of_type(M, available_globals[ex.index + 1])

space_len(M, kind) ==
    CASE kind = "Func" -> Len(M.funcs)
      [] kind = "Tag" -> Len(M.tags)
      [] kind = "Table" -> Len(M.tables)
      [] kind = "Memory" -> Len(M.memories)
      [] OTHER -> Len(M.globals)

\* exports.push((name, kind, index)); export_names.insert(name)
push_export(M, name, kind, index) ==
    [M EXCEPT !.exports = Append(@, Export(name, kind, index)),
              !.export_names = @ \cup {name}]

RECURSIVE shape_exports(_, _, _, _)
shape_exports(M, tys, tpl, exs) ==
    IF exs = <<>> THEN M
    ELSE LET index == space_len(M, Head(exs).kind)
             M1 == shape_export_entity(M, tys, tpl, Head(exs))
         IN  shape_exports(push_export(M1, Head(exs).name, Head(exs).kind, index),
                           tys, tpl, Tail(exs))

imports_exports_from_module_shape(M, tpl) ==
    LET required_types == template_types(tpl.types, <<>>)
    IN  shape_exports(shape_imports(M, required_types, tpl.imports),
                      required_types, tpl, tpl.exports)

(***************************************************************************)
(* _arbitrary_imports_from_available; mask[i] is the use_import coin of    *)
(* the template's i-th import.                                             *)
(***************************************************************************)
can_add_kind(M, c, kind) ==
    CASE kind = "Func" -> Len(M.funcs) < c.max_funcs
      [] kind = "Tag" -> c.exceptions_enabled /\ Len(M.tags) < c.max_tags
      [] kind = "Table" -> Len(M.tables) < c.max_tables
      [] kind = "Memory" -> Len(M.memories) < c.max_memories
      [] OTHER -> Len(M.globals) < c.max_globals

available_charge_Full(e) == 1 + size(e)

available_charge(e) == IF e.kind \in {"Func", "Tag"} THEN 0 ELSE size(e)

available_import(M, c, tys, im) ==
    LET type_size_budget == c.max_type_size - M.type_size
        e == template_entity(tys, im)
    IN  IF ~can_add_kind(M, c, im.kind) \/ type_size_budget < size(e)
        THEN note_subtraction(M, c)
        ELSE LET M1 == note_budget(note_subtraction(M, c), c, e)
                 M2 == [M1 EXCEPT !.type_size = @ + available_charge(e)]
             IN  push_import(push_entity(M2, e), im.module, im.field, e)

RECURSIVE available_imports_from(_, _, _, _, _)
available_imports_from(M, c, tys, ims, mask) ==
    IF ims = <<>> THEN M
    ELSE available_imports_from(
             IF Head(mask) THEN available_import(M, c, tys, Head(ims)) ELSE M,
             c, tys, Tail(ims), Tail(mask))

arbitrary_imports_from_available_AllOrNothing(M, c, tpl, mask) ==
    available_imports_from(M, c, template_types(tpl.types, <<>>), tpl.imports,
                           [i \in 1..Len(mask) |-> mask[1]])

arbitrary_imports_from_available(M, c, tpl, mask) ==
    available_imports_from(M, c, template_types(tpl.types, <<>>), tpl.imports, mask)

(***************************************************************************)
(* _required_exports                                                       *)
(***************************************************************************)
required_type(ex) == SubType(TRUE, NoSuper, CompositeType("Func", ex.shared, ex.sig), 1)

\* The types a required export adds: its own single-type rec group.
required_export_types(T, ex) ==
    IF ex.kind \in {"Func", "Tag"}
    THEN add_type(push_rec_group(T, Len(T.types), Len(T.types) + 1), required_type(ex))
    ELSE T

required_export_entity_NextType(M, T, ex) ==
    CASE ex.kind = "Func" -> add_defined_func(M, Len(T.types) + 1, ex.sig)
      [] ex.kind = "Tag" -> add_defined_tag(M, Len(T.types) + 1, ex.sig)
      [] ex.kind = "Global" -> add_arbitrary_global_of_type(M, ex.ty)
      [] ex.kind = "Memory" -> add_arbitrary_memory_of_type(M, ex.ty)
      [] OTHER -> add_arbitrary_table_of_type(M, ex.ty)

required_export_entity(M, T, ex) ==
    CASE ex.kind = "Func" -> add_defined_func(M, Len(T.types), ex.sig)
      [] ex.kind = "Tag" -> add_defined_tag(M, Len(T.types), ex.sig)
      [] ex.kind = "Global" -> add_arbitrary_global_of_type(M, ex.ty)
      [] ex.kind = "Memory" -> add_arbitrary_memory_of_type(M, ex.ty)
      [] OTHER -> add_arbitrary_table_of_type(M, ex.ty)

RECURSIVE required_exports_types(_, _)
required_exports_types(T, exs) ==
    IF exs = <<>> THEN T
    ELSE required_exports_types(required_export_types(T, Head(exs)), Tail(exs))

RECURSIVE required_exports(_, _, _)
required_exports(M, T, exs) ==
    IF exs = <<>> THEN M
    ELSE LET new_index == space_len(M, Head(exs).kind)
             M1 == required_export_entity(M, T, Head(exs))
         IN  required_exports(push_export(M1, Head(exs).name, Head(exs).kind, new_index),
                              required_export_types(T, Head(exs)), Tail(exs))

(***************************************************************************)
(* Module::empty and Module::build.                                        *)
(***************************************************************************)
EmptyBuild ==
    /\ err = "none"
    /\ types = <<>> /\ rec_groups = <<>> /\ super_to_sub_types = <<>>
    /\ can_subtype = <<>> /\ array_types = <<>> /\ func_types = <<>>
    /\ struct_types = <<>>
    /\ imports = <<>> /\ num_imports = 0
    /\ tags = <<>> /\ funcs = <<>> /\ tables = <<>> /\ globals = <<>>
    /\ memories = <<>>
    /\ num_defined_tags = 0 /\ num_defined_funcs = 0
    /\ num_defined_memories = 0 /\ defined_tables = 0
    /\ defined_globals = <<>>
    /\ exports = <<>> /\ export_names = {}
    /\ type_size = 0
    /\ loop_count = 0 /\ overbudget = 0 /\ underflow = FALSE
    /\ start = NoIndex /\ elems = <<>> /\ data = <<>> /\ code = <<>>
    /\ interesting_values32 = <<>> /\ interesting_values64 = <<>>
    /\ twin_values32 = <<>> /\ twin_values64 = <<>>
    /\ bad_loop = FALSE

NoCall == n_call = [fn |-> "none"] /\ n_ret = [panic |-> FALSE]

NoGlobalsQuery ==
    /\ g_ty = [kind |-> "I32", ref |-> [nullable |-> FALSE, heap_type |-> Abstract(FALSE, "None")]]
    /\ g_allow = FALSE
    /\ g_res = <<>>

NoQuery ==
    /\ q_a = Abstract(FALSE, "Any") /\ q_b = Abstract(FALSE, "Any")
    /\ q_res = FALSE
    /\ NoGlobalsQuery
    /\ NoCall

Init == cfg \in Configs /\ pc = "module_shape" /\ EmptyBuild /\ NoQuery

\* The step ends in (T, M): build goes on at next unless it failed.
Goto(T, M, next) ==
    /\ SetTypeState(T)
    /\ SetModuleState(M)
    /\ err' = IF T.panic THEN "panic" ELSE M.err
    /\ pc' = IF T.panic \/ M.err # "none" THEN "failed" ELSE next
    /\ UNCHANGED <<cfg, qvars, segvars, valvars, bad_loop>>

generate_arbitrary_imports_IgnoreAvailable == ~cfg.module_shape.present

generate_arbitrary_imports ==
    ~cfg.module_shape.present /\ ~cfg.available_imports.present

generate_arbitrary_exports_IgnoreRequired == ~cfg.module_shape.present

generate_arbitrary_exports_IgnoreShape == ~cfg.exports.present

generate_arbitrary_exports ==
    ~cfg.module_shape.present /\ ~cfg.exports.present

ImportsExportsFromModuleShape ==
    /\ pc = "module_shape"
    /\ loop_count' = 0
    /\ IF cfg.module_shape.present
       THEN Goto(copy_template_types(TypeState, cfg.module_shape),
                 imports_exports_from_module_shape(ModuleState, cfg.module_shape),
                 "available_imports")
       ELSE Goto(TypeState, ModuleState, "available_imports")

ArbitraryImportsFromAvailable ==
    /\ pc = "available_imports"
    /\ loop_count' = 0
    /\ IF cfg.available_imports.present
       THEN \E mask \in [1..Len(cfg.available_imports.imports) -> BOOLEAN] :
                Goto(copy_template_types(TypeState, cfg.available_imports),
                     arbitrary_imports_from_available(ModuleState, cfg,
                         cfg.available_imports, mask),
                     "types")
       ELSE Goto(TypeState, ModuleState, "types")

(***************************************************************************)
(* arbitrary_types: one action per call of arbitrary_rec_group.            *)
(***************************************************************************)
InMinLoop == Len(types) < cfg.min_types

InMoreLoop ==
    /\ ~InMinLoop
    /\ Len(types) < cfg.max_types
    /\ Len(rec_groups) < MaxRecGroups

NewRecGroup ==
    /\ pc = "types"
    /\ InMinLoop \/ InMoreLoop
    /\ loop_count' = 0
    /\ LET min_rec_group_size == IF InMinLoop THEN 1 ELSE 0
           max_rec_group_size == cfg.max_types - Len(types)
       IN  IF cfg.gc_enabled
           THEN \E rec_group_size \in min_rec_group_size..max_rec_group_size :
                \E ds \in [1..rec_group_size -> Decisions(cfg)] :
                    /\ DecisionsFit(cfg, TypeState, ds)
                    /\ Goto(new_rec_group(cfg, TypeState, ds), ModuleState, "types")
           ELSE \E d \in Decisions(cfg) :
                    Goto(new_rec_group(cfg, TypeState, <<d>>), ModuleState, "types")

CloneRecGroup ==
    /\ pc = "types"
    /\ InMinLoop \/ InMoreLoop
    /\ cfg.gc_enabled
    /\ Len(rec_groups) > 0
    /\ loop_count' = 0
    /\ \E g \in 1..Len(rec_groups) :
           Goto(clone_rec_group(cfg, TypeState, rec_groups[g], ~InMinLoop),
                ModuleState, "types")

ArbitraryTypesDone ==
    /\ pc = "types"
    /\ ~InMinLoop
    /\ loop_count' = 0
    /\ Goto(TypeState, ModuleState, "imports")

(***************************************************************************)
(* arbitrary_loop(min, max, body): body runs while fewer than max calls    *)
(* were made, and after min calls only if the oracle says so; the loop     *)
(* ends when body returns false.                                           *)
(***************************************************************************)
loop_may_call(count, min, max) == count < max

loop_may_end(count, min, max) == count >= min

tag_func_types(T) ==
    SelectSeq(T.func_types, LAMBDA i : ty(T.types, i).composite_type.results = <<>>)

has_tag_func_types(T) == tag_func_types(T) # <<>>

can_add_local_or_import_tag(M, T, c) ==
    c.exceptions_enabled /\ has_tag_func_types(T) /\ Len(M.tags) < c.max_tags

can_add_local_or_import_func_UpToMax(M, T, c) ==
    Len(T.func_types) > 0 /\ Len(M.funcs) <= c.max_funcs

can_add_local_or_import_func(M, T, c) ==
    T.func_types # <<>> /\ Len(M.funcs) < c.max_funcs

can_add_local_or_import_table(M, c) == Len(M.tables) < c.max_tables

can_add_local_or_import_global(M, c) == Len(M.globals) < c.max_globals

can_add_local_or_import_memory(M, c) == Len(M.memories) < c.max_memories

SeqRange(q) == {q[i] : i \in 1..Len(q)}

sig_of(T, i) ==
    [params |-> ty(T.types, i).composite_type.params,
     results |-> ty(T.types, i).composite_type.results]

\* The entity types the closures pushed into choices can return.
import_choices(M, T, c) ==
    (IF can_add_local_or_import_tag(M, T, c)
     THEN {EntityTag(i, sig_of(T, i)) : i \in SeqRange(tag_func_types(T))} ELSE {})
    \cup
    (IF can_add_local_or_import_func(M, T, c)
     THEN {EntityFunc(i, sig_of(T, i)) : i \in SeqRange(T.func_types)} ELSE {})
    \cup
    (IF can_add_local_or_import_global(M, c)
     THEN {EntityOther("Global", g) : g \in GlobalTypes} ELSE {})
    \cup
    (IF can_add_local_or_import_memory(M, c)
     THEN {EntityOther("Memory", m) : m \in MemoryTypes} ELSE {})
    \cup
    (IF can_add_local_or_import_table(M, c)
     THEN {EntityOther("Table", t) : t \in TableTypes} ELSE {})

import_fits_Exact(M, c, e) == size(e) <= c.max_type_size - M.type_size

import_fits(M, c, e) == ~(size(e) + 1 > c.max_type_size - M.type_size)

import_charge_Size(e) == size(e)

import_charge(e) == size(e) + 1

\* unique_import_strings: the names the oracle gives an import.
ImportModule == <<"m">>

ImportField == <<"f">>

\* The body of the loop of arbitrary_imports for the drawn entity type.
arbitrary_import(M, c, e) ==
    LET M0 == note_subtraction(M, c)
        M1 == note_budget(M0, c, e)
        M2 == [M1 EXCEPT !.type_size = @ + import_charge(e)]
    IN  push_import(push_entity(M2, e), ImportModule, ImportField, e)

ArbitraryImport ==
    /\ pc = "imports"
    /\ generate_arbitrary_imports
    /\ ~(cfg.max_type_size < type_size)
    /\ loop_may_call(loop_count, cfg.min_imports, cfg.max_imports)
    /\ \E e \in import_choices(ModuleState, TypeState, cfg) :
           IF import_fits(ModuleState, cfg, e)
           THEN /\ Goto(TypeState, arbitrary_import(ModuleState, cfg, e), "imports")
                /\ loop_count' = loop_count + 1
           ELSE /\ Goto(TypeState, note_subtraction(ModuleState, cfg), "tags")
                /\ loop_count' = 0

ArbitraryImportsDone ==
    /\ pc = "imports"
    /\ \/ ~generate_arbitrary_imports
       \/ cfg.max_type_size < type_size
       \/ loop_may_end(loop_count, cfg.min_imports, cfg.max_imports)
       \/ import_choices(ModuleState, TypeState, cfg) = {}
    /\ loop_count' = 0
    /\ Goto(TypeState, ModuleState, "tags")

(***************************************************************************)
(* arbitrary_tags, arbitrary_funcs, arbitrary_tables, arbitrary_memories,  *)
(* arbitrary_globals: one action per call of the loop body.                *)
(***************************************************************************)
unshared_func_types(T) ==
    SelectSeq(T.func_types, LAMBDA i : ~is_shared_type(T.types, i))

ArbitraryTag ==
    /\ pc = "tags"
    /\ cfg.exceptions_enabled /\ has_tag_func_types(TypeState)
    /\ loop_may_call(loop_count, cfg.min_tags, cfg.max_tags)
    /\ can_add_local_or_import_tag(ModuleState, TypeState, cfg)
    /\ loop_count' = loop_count + 1
    /\ \E i \in SeqRange(tag_func_types(TypeState)) :
           Goto(TypeState, add_defined_tag(ModuleState, i, sig_of(TypeState, i)), "tags")

ArbitraryTagsDone ==
    /\ pc = "tags"
    /\ \/ ~cfg.exceptions_enabled \/ ~has_tag_func_types(TypeState)
       \/ loop_may_end(loop_count, cfg.min_tags, cfg.max_tags)
       \/ ~can_add_local_or_import_tag(ModuleState, TypeState, cfg)
    /\ loop_count' = 0
    /\ Goto(TypeState, ModuleState, "funcs")

ArbitraryFunc ==
    /\ pc = "funcs"
    /\ unshared_func_types(TypeState) # <<>>
    /\ loop_may_call(loop_count, cfg.min_funcs, cfg.max_funcs)
    /\ can_add_local_or_import_func(ModuleState, TypeState, cfg)
    /\ loop_count' = loop_count + 1
    /\ \E i \in SeqRange(unshared_func_types(TypeState)) :
           Goto(TypeState, add_defined_func(ModuleState, i, sig_of(TypeState, i)), "funcs")

ArbitraryFuncsDone ==
    /\ pc = "funcs"
    /\ \/ unshared_func_types(TypeState) = <<>>
       \/ loop_may_end(loop_count, cfg.min_funcs, cfg.max_funcs)
       \/ ~can_add_local_or_import_func(ModuleState, TypeState, cfg)
    /\ loop_count' = 0
    /\ Goto(TypeState, ModuleState, "tables")

ArbitraryTable ==
    /\ pc = "tables"
    /\ loop_may_call(loop_count, cfg.min_tables, cfg.max_tables)
    /\ can_add_local_or_import_table(ModuleState, cfg)
    /\ loop_count' = loop_count + 1
    /\ \E t \in TableTypes :
           Goto(TypeState, add_arbitrary_table_of_type(ModuleState, t), "tables")

ArbitraryTablesDone ==
    /\ pc = "tables"
    /\ \/ loop_may_end(loop_count, cfg.min_tables, cfg.max_tables)
       \/ ~can_add_local_or_import_table(ModuleState, cfg)
    /\ loop_count' = 0
    /\ Goto(TypeState, ModuleState, "memories")

ArbitraryMemory ==
    /\ pc = "memories"
    /\ loop_may_call(loop_count, cfg.min_memories, cfg.max_memories)
    /\ can_add_local_or_import_memory(ModuleState, cfg)
    /\ loop_count' = loop_count + 1
    /\ \E t \in MemoryTypes :
           Goto(TypeState, add_arbitrary_memory_of_type(ModuleState, t), "memories")

ArbitraryMemoriesDone ==
    /\ pc = "memories"
    /\ \/ loop_may_end(loop_count, cfg.min_memories, cfg.max_memories)
       \/ ~can_add_local_or_import_memory(ModuleState, cfg)
    /\ loop_count' = 0
    /\ Goto(TypeState, ModuleState, "globals")

ArbitraryGlobal ==
    /\ pc = "globals"
    /\ loop_may_call(loop_count, cfg.min_globals, cfg.max_globals)
    /\ can_add_local_or_import_global(ModuleState, cfg)
    /\ loop_count' = loop_count + 1
    /\ \E t \in GlobalTypes :
           Goto(TypeState, add_arbitrary_global_of_type(ModuleState, t), "globals")

ArbitraryGlobalsDone ==
    /\ pc = "globals"
    /\ \/ loop_may_end(loop_count, cfg.min_globals, cfg.max_globals)
       \/ ~can_add_local_or_import_global(ModuleState, cfg)
    /\ loop_count' = 0
    /\ Goto(TypeState, ModuleState, "exports")

(***************************************************************************)
(* required_exports and arbitrary_exports                                  *)
(***************************************************************************)
RequiredExports ==
    /\ pc = "exports"
    /\ cfg.exports.present
    /\ loop_count' = 0
    /\ Goto(required_exports_types(TypeState, cfg.exports.exports),
            required_exports(ModuleState, TypeState, cfg.exports.exports),
            "start")

\* The candidate lists of arbitrary_exports, one per kind, in order.
export_candidates(M) ==
    [i \in 1..Len(M.funcs) |-> <<"Func", i - 1>>]
    \o [i \in 1..Len(M.tables) |-> <<"Table", i - 1>>]
    \o [i \in 1..Len(M.memories) |-> <<"Memory", i - 1>>]
    \o [i \in 1..Len(M.globals) |-> <<"Global", i - 1>>]

\* The pool of names handed to unique_string.
names_in_use_None(M) == {}

names_in_use(M) == M.export_names

\* unique_string(1_000, &mut self.export_names, u) for the drawn string.
fresh_export_name(M, base) == unique_string(names_in_use(M), base)

export_with_name(M, c, base, kind, idx) ==
    LET name == fresh_export_name(M, base)
        M1 == [M EXCEPT !.export_names = @ \cup {name}]
    IN  add_arbitrary_export(M1, c, name, kind, idx)

RECURSIVE export_everything(_, _, _, _)
export_everything(M, c, cands, bases) ==
    IF cands = <<>> \/ M.err # "none" THEN M
    ELSE export_everything(
             export_with_name(M, c, Head(bases), Head(cands)[1], Head(cands)[2]),
             c, Tail(cands), Tail(bases))

ExportEverything ==
    /\ pc = "exports"
    /\ generate_arbitrary_exports
    /\ cfg.export_everything
    /\ loop_count' = 0
    /\ LET cands == export_candidates(ModuleState)
       IN  \E bases \in [1..Len(cands) -> BaseNames] :
               Goto(TypeState, export_everything(ModuleState, cfg, cands, bases), "start")

export_affordable_Exact(M, c, cand) ==
    size(type_of(M, cand[1], cand[2])) + 1 <= c.max_type_size - M.type_size

\* list.retain(..): the candidate is kept under the budget that is left.
export_affordable(M, c, cand) ==
    size(type_of(M, cand[1], cand[2])) + 1 < c.max_type_size - M.type_size

affordable_exports(M, c) ==
    {cand \in SeqRange(export_candidates(M)) : export_affordable(M, c, cand)}

ArbitraryExport ==
    /\ pc = "exports"
    /\ generate_arbitrary_exports
    /\ ~cfg.export_everything
    /\ ~(cfg.max_type_size < type_size)
    /\ loop_may_call(loop_count, cfg.min_exports, cfg.max_exports)
    /\ loop_count' = loop_count + 1
    /\ \E cand \in affordable_exports(ModuleState, cfg) : \E base \in BaseNames :
           Goto(TypeState,
                export_with_name(note_subtraction(ModuleState, cfg), cfg, base,
                                 cand[1], cand[2]),
                "exports")

ArbitraryExportsDone ==
    /\ pc = "exports"
    /\ ~cfg.exports.present
    /\ ~(generate_arbitrary_exports /\ cfg.export_everything)
    /\ \/ ~generate_arbitrary_exports
       \/ cfg.max_type_size < type_size
       \/ loop_may_end(loop_count, cfg.min_exports, cfg.max_exports)
       \/ affordable_exports(ModuleState, cfg) = {}
    /\ loop_count' = 0
    /\ Goto(TypeState, ModuleState, "start")

(***************************************************************************)
(* Value types of globals and tables.  A global type is written as a       *)
(* string; global_type gives its val_type and mutability.  A reference     *)
(* type is [nullable, heap_type].                                          *)
(***************************************************************************)
RefType(nullable, heap_type) == [nullable |-> nullable, heap_type |-> heap_type]

FUNCREF == RefType(TRUE, Abstract(FALSE, "Func"))

EXTERNREF == RefType(TRUE, Abstract(FALSE, "Extern"))

\* A ValType is [kind, ref]; ref is read for kind "Ref" only.
NumType(kind) == [kind |-> kind, ref |-> RefType(FALSE, Abstract(FALSE, "None"))]

ValRef(r) == [kind |-> "Ref", ref |-> r]

GlobalType(val_type, mutable) == [val_type |-> val_type, mutable |-> mutable]

global_type(g) ==
    CASE g = "i32" -> GlobalType(NumType("I32"), FALSE)
      [] g = "mut i32" -> GlobalType(NumType("I32"), TRUE)
      [] g = "i64" -> GlobalType(NumType("I64"), FALSE)
      [] g = "mut i64" -> GlobalType(NumType("I64"), TRUE)
      [] g = "funcref" -> GlobalType(ValRef(FUNCREF), FALSE)
      [] g = "mut funcref" -> GlobalType(ValRef(FUNCREF), TRUE)
      [] g = "nullfuncref" ->
             GlobalType(ValRef(RefType(TRUE, Abstract(FALSE, "NoFunc"))), FALSE)
      [] OTHER -> GlobalType(ValRef(EXTERNREF), FALSE)

table_type(t) == [element_type |-> FUNCREF, minimum |-> 1, table64 |-> FALSE]

memory_type(m) == [minimum |-> 1, memory64 |-> FALSE]

ref_type_is_sub_type(tys, a, b) ==
    IF a = b THEN TRUE
    ELSE IF a.nullable /\ ~b.nullable THEN FALSE
    ELSE heap_type_is_sub_type(tys, a.heap_type, b.heap_type)

val_type_is_sub_type(tys, a, b) ==
    IF a = b THEN TRUE
    ELSE IF a.kind = "Ref" /\ b.kind = "Ref"
         THEN ref_type_is_sub_type(tys, a.ref, b.ref)
         ELSE FALSE

globals_for_const_expr_AnyFeature(M, c, tys, t, allow_defined_globals) ==
    LET max_global == IF allow_defined_globals
                      THEN Len(M.globals)
                      ELSE Len(M.globals) - Len(M.defined_globals)
    IN  SelectSeq([i \in 1..max_global |-> i - 1],
                  LAMBDA i : /\ ~global_type(M.globals[i + 1]).mutable
                             /\ val_type_is_sub_type(tys,
                                    global_type(M.globals[i + 1]).val_type, t))

\* The globals before max_global that are immutable and below ty.
globals_for_const_expr(M, c, tys, t, allow_defined_globals) ==
    LET num_imported_globals == Len(M.globals) - Len(M.defined_globals)
        max_global == IF c.gc_enabled /\ allow_defined_globals
                      THEN Len(M.globals) ELSE num_imported_globals
    IN  SelectSeq([i \in 1..max_global |-> i - 1],
                  LAMBDA i : /\ ~global_type(M.globals[i + 1]).mutable
                             /\ val_type_is_sub_type(tys,
                                    global_type(M.globals[i + 1]).val_type, t))

(***************************************************************************)
(* arbitrary_start                                                         *)
(***************************************************************************)
\* What the steps after the export step leave alone.
BuiltSoFar ==
    UNCHANGED <<cfg, typevars, impvars, entvars, expvars, type_size,
                overbudget, underflow, qvars>>

start_choices(M) ==
    {i \in 0..(Len(M.funcs) - 1) :
        M.funcs[i + 1].sig.params = <<>> /\ M.funcs[i + 1].sig.results = <<>>}

ArbitraryStart ==
    /\ pc = "start"
    /\ IF ~cfg.allow_start_export THEN start' = start
       ELSE \/ start' = start
            \/ \E f \in start_choices(ModuleState) : start' = f
    /\ pc' = "elems"
    /\ loop_count' = 0
    /\ BuiltSoFar
    /\ UNCHANGED <<err, elems, data, code, valvars, bad_loop>>

(***************************************************************************)
(* arbitrary_elems: one action per call of the body of the segment loop.   *)
(* An element segment is [kind, table, offset, ty, items]; table is        *)
(* NoIndex for Option::None and for a passive or declared segment.  No     *)
(* table type of the model has minimum 0, so the coin that skips an empty  *)
(* table is never tossed.                                                  *)
(***************************************************************************)
NoHint == 0 - 1

OffsetGlobal(g) == [tag |-> "Global", value |-> g]

OffsetConst32(v) == [tag |-> "Const32", value |-> v]

NoOffset == [tag |-> "-", value |-> 0]

\* The pairs (offset, max_size_hint) arbitrary_active_elem can return.
arbitrary_active_elem(M, c, tys, min_mem_size, table, table_ty) ==
    LET global_choices == IF c.disallow_traps THEN {}
                          ELSE SeqRange(globals_for_const_expr(M, c, tys, NumType("I32"), TRUE))
        max_mem_size == IF c.disallow_traps THEN table_ty.minimum ELSE MaxOffset
        hints(offset) ==
            IF c.disallow_traps THEN {min_mem_size - offset}
            ELSE IF offset <= min_mem_size
                 THEN {min_mem_size - offset, NoHint}
                 ELSE {NoHint}
    IN  {[kind |-> "Active", table |-> table, offset |-> OffsetGlobal(g),
          max_size_hint |-> NoHint] : g \in global_choices}
        \cup
        UNION {{[kind |-> "Active", table |-> table,
                 offset |-> OffsetConst32(offset), max_size_hint |-> h] :
                    h \in hints(offset)} : offset \in 0..max_mem_size}

\* What the closures pushed into choices can return.
elem_choices(M, c, tys) ==
    (IF c.bulk_memory_enabled
     THEN {[kind |-> k, table |-> NoIndex, offset |-> NoOffset,
            max_size_hint |-> NoHint] : k \in {"Passive", "Declared"}}
     ELSE {})
    \cup
    UNION {
        (IF i = 0 /\ table_type(M.tables[i + 1]).element_type = FUNCREF
         THEN arbitrary_active_elem(M, c, tys, table_type(M.tables[i + 1]).minimum,
                                    NoIndex, table_type(M.tables[i + 1]))
         ELSE {})
        \cup
        (IF c.bulk_memory_enabled
         THEN arbitrary_active_elem(M, c, tys, table_type(M.tables[i + 1]).minimum,
                                    i, table_type(M.tables[i + 1]))
         ELSE {})
        : i \in 0..(Len(M.tables) - 1)}

\* arbitrary_ref_type, without the GC proposal.
arbitrary_ref_type(c) ==
    IF ~c.reference_types_enabled THEN {FUNCREF} ELSE {FUNCREF, EXTERNREF}

\* arbitrary_matching_ref_type, without the GC proposal.
arbitrary_matching_ref_type(c, t) == {t}

\* The type of a segment of the given kind.
segment_types(M, c, ch) ==
    IF ch.kind \in {"Passive", "Declared"} THEN arbitrary_ref_type(c)
    ELSE LET idx == IF ch.table = NoIndex THEN 0 ELSE ch.table
         IN  arbitrary_matching_ref_type(c, table_type(M.tables[idx + 1]).element_type)

func_candidates_OnePast(M, t) ==
    IF t = FUNCREF THEN 0..Len(M.funcs) ELSE {}

func_candidates(M, t) ==
    IF t = FUNCREF THEN 0..(Len(M.funcs) - 1) ELSE {}

ConstExpr(op, idx) == [op |-> op, idx |-> idx]

\* arbitrary_const_expr(ValType::Ref(t), u, allow_defined_globals)
arbitrary_const_expr(M, c, tys, t, allow_defined_globals) ==
    {ConstExpr("global_get", i) :
        i \in SeqRange(globals_for_const_expr(M, c, tys, ValRef(t),
                                              allow_defined_globals))}
    \cup (IF t.nullable THEN {ConstExpr("ref_null", 0)} ELSE {})
    \cup (IF t.heap_type = Abstract(FALSE, "Func")
          THEN {ConstExpr("ref_func", i) :
                   i \in {j \in 0..(Len(M.funcs) - 1) :
                             ~is_shared_type(tys, M.funcs[j + 1].ty)}}
          ELSE {})

\* The lists a loop arbitrary_loop(min, max, ..) can build from choices.
loop_lists(min, max, choices) ==
    UNION {[1..n -> choices] : n \in min..max}

ElementSegment(kind, table, offset, t, items) ==
    [kind |-> kind, table |-> table, offset |-> offset, ty |-> t, items |-> items]

Elements(tag, init) == [tag |-> tag, init |-> init]

\* arbitrary_loop is called with min > max: its contract is broken and
\* the build ends.
BadLoop ==
    /\ bad_loop' = TRUE
    /\ err' = "panic"
    /\ pc' = "failed"

ArbitraryElem ==
    /\ pc = "elems"
    /\ loop_may_call(loop_count, cfg.min_element_segments,
                     cfg.max_element_segments)
    /\ \E ch \in elem_choices(ModuleState, cfg, types) :
       \E t \in segment_types(ModuleState, cfg, ch) :
       \E use_function_list \in BOOLEAN :
          LET max == IF ch.max_size_hint = NoHint THEN cfg.max_elements
                     ELSE ch.max_size_hint
              can_use_function_list == (t = FUNCREF)
              functions == \/ ~cfg.reference_types_enabled
                           \/ (can_use_function_list /\ use_function_list)
              cands == func_candidates(ModuleState, t)
              exprs == arbitrary_const_expr(ModuleState, cfg, types, t, TRUE)
              loops == ~functions \/ cands # {}
          IN  IF loops /\ cfg.min_elements > max
              THEN /\ BadLoop
                   /\ UNCHANGED <<elems, loop_count>>
              ELSE /\ \E init \in
                          IF ~loops THEN {<<>>}
                          ELSE loop_lists(cfg.min_elements, max,
                                          IF functions THEN cands ELSE exprs) :
                          elems' = Append(elems,
                              ElementSegment(ch.kind, ch.table, ch.offset, t,
                                  Elements(IF functions THEN "Functions"
                                           ELSE "Expressions", init)))
                   /\ loop_count' = loop_count + 1
                   /\ UNCHANGED <<pc, err, bad_loop>>
    /\ BuiltSoFar
    /\ UNCHANGED <<start, data, code, valvars>>

ArbitraryElemsDone ==
    /\ pc = "elems"
    /\ \/ elem_choices(ModuleState, cfg, types) = {}
       \/ loop_may_end(loop_count, cfg.min_element_segments,
                       cfg.max_element_segments)
    /\ pc' = "data"
    /\ loop_count' = 0
    /\ BuiltSoFar
    /\ UNCHANGED <<err, segvars, valvars, bad_loop>>

(***************************************************************************)
(* arbitrary_data: one action per call of the body of the segment loop.    *)
(* A data segment is [kind, offset, memory_index]; its bytes and the       *)
(* value of a constant offset are left out.                                *)
(***************************************************************************)
DataSegment(kind, offset, memory_index) ==
    [kind |-> kind, offset |-> offset, memory_index |-> memory_index]

\* The memories given a data segment: those with an initial size.
data_memories(M) ==
    {i \in 0..(Len(M.memories) - 1) : memory_type(M.memories[i + 1]).minimum > 0}

\* choices32: a constant, or an immutable i32 global.
data_offsets(M, c, tys) ==
    {[tag |-> "Const32", value |-> 0]}
    \cup (IF c.disallow_traps THEN {}
          ELSE {OffsetGlobal(g) :
                   g \in SeqRange(globals_for_const_expr(M, c, tys, NumType("I32"), TRUE))})

data_possible(M, c) ==
    /\ ~(Len(M.memories) = 0 /\ ~c.bulk_memory_enabled)
    /\ ~(data_memories(M) = {} /\ ~c.bulk_memory_enabled)

data_kinds(M, c, tys) ==
    (IF c.bulk_memory_enabled
     THEN {DataSegment("Passive", NoOffset, NoIndex)} ELSE {})
    \cup
    {DataSegment("Active", o, m) :
        o \in data_offsets(M, c, tys), m \in data_memories(M)}

ArbitraryData ==
    /\ pc = "data"
    /\ data_possible(ModuleState, cfg)
    /\ loop_may_call(loop_count, cfg.min_data_segments, cfg.max_data_segments)
    /\ \E seg \in data_kinds(ModuleState, cfg, types) :
           data' = Append(data, seg)
    /\ loop_count' = loop_count + 1
    /\ BuiltSoFar
    /\ UNCHANGED <<pc, err, start, elems, code, valvars, bad_loop>>

ArbitraryDataDone ==
    /\ pc = "data"
    /\ \/ ~data_possible(ModuleState, cfg)
       \/ loop_may_end(loop_count, cfg.min_data_segments, cfg.max_data_segments)
    /\ pc' = "code"
    /\ loop_count' = 0
    /\ BuiltSoFar
    /\ UNCHANGED <<err, segvars, valvars, bad_loop>>

(***************************************************************************)
(* arbitrary_code.  compute_interesting_values collects the values in two  *)
(* hash sets, moves them into the tables in the iteration order of the     *)
(* sets and sorts the tables.  The iteration order of a hash set depends   *)
(* on the hasher's seed, which differs from one process to the next.  The  *)
(* model keeps the values below 2^31: bit patterns of floats, negative     *)
(* numbers and the powers of two above MaxPower are left out, so the 32-   *)
(* and the 64-bit set hold the same values.  A function body is written   *)
(* as the type index of its function.                                      *)
(***************************************************************************)
PageSize == 65536

RECURSIVE Pow2(_)
Pow2(i) == IF i = 0 THEN 1 ELSE 2 * Pow2(i - 1)

\* The values handed to interesting(val).
interesting(M) ==
    {0, 255}
    \cup UNION {{Pow2(i), Pow2(i) - 1} : i \in 0..MaxPower}
    \cup UNION {{table_type(M.tables[t]).minimum,
                 table_type(M.tables[t]).minimum + 1} : t \in 1..Len(M.tables)}
    \cup UNION {LET min == memory_type(M.memories[m]).minimum * PageSize
                IN  {min} \cup UNION {{min + Pow2(i), min - Pow2(i)} :
                                         i \in 0..MaxPower}
                : m \in 1..Len(M.memories)}

\* The values of a set, one after the other.
RECURSIVE Enumerate(_)
Enumerate(S) ==
    IF S = {} THEN <<>>
    ELSE LET x == CHOOSE y \in S : TRUE IN <<x>> \o Enumerate(S \ {x})

\* The order in which a hash set hands out its values under a seed.
iteration_order(values, seed) ==
    [i \in 1..Len(values) |-> values[((i - 1 + seed) % Len(values)) + 1]]

sort_Unsorted(q) == q

\* Vec::sort
sort(q) == SortSeq(q, LAMBDA a, b : a < b)

\* The table after extend and sort.
compute_interesting_values(values, seed) ==
    sort(<<>> \o iteration_order(values, seed))

function_bodies(M) ==
    [i \in 1..M.num_defined_funcs |->
        M.funcs[Len(M.funcs) - M.num_defined_funcs + i].ty]

\* The seed of the second set of a process follows that of the first.
ArbitraryCode ==
    /\ pc = "code"
    /\ LET values == Enumerate(interesting(ModuleState))
       IN  \E seed \in 0..MaxHashSeed, twin_seed \in 0..MaxHashSeed :
               /\ interesting_values32' = compute_interesting_values(values, seed)
               /\ interesting_values64' = compute_interesting_values(values, seed + 1)
               /\ twin_values32' = compute_interesting_values(values, twin_seed)
               /\ twin_values64' = compute_interesting_values(values, twin_seed + 1)
    /\ code' = function_bodies(ModuleState)
    /\ pc' = "built"
    /\ loop_count' = 0
    /\ BuiltSoFar
    /\ UNCHANGED <<err, start, elems, data, bad_loop>>

\* A read of the oracle fails and build returns its error.
OracleError ==
    /\ pc \in {"types", "imports", "exports", "start", "elems", "data", "code"}
    /\ pc' = "failed"
    /\ err' = "NotEnoughData"
    /\ UNCHANGED <<cfg, typevars, impvars, entvars, expvars, type_size,
                   loop_count, overbudget, underflow, qvars, segvars,
                   valvars, bad_loop>>

Next ==
    \/ ImportsExportsFromModuleShape
    \/ ArbitraryImportsFromAvailable
    \/ NewRecGroup
    \/ CloneRecGroup
    \/ ArbitraryTypesDone
    \/ ArbitraryImport
    \/ ArbitraryImportsDone
    \/ ArbitraryTag
    \/ ArbitraryTagsDone
    \/ ArbitraryFunc
    \/ ArbitraryFuncsDone
    \/ ArbitraryTable
    \/ ArbitraryTablesDone
    \/ ArbitraryMemory
    \/ ArbitraryMemoriesDone
    \/ ArbitraryGlobal
    \/ ArbitraryGlobalsDone
    \/ RequiredExports
    \/ ExportEverything
    \/ ArbitraryExport
    \/ ArbitraryExportsDone
    \/ ArbitraryStart
    \/ ArbitraryElem
    \/ ArbitraryElemsDone
    \/ ArbitraryData
    \/ ArbitraryDataDone
    \/ ArbitraryCode
    \/ OracleError

Spec == Init /\ [][Next]_vars

(***************************************************************************)
(* Lattice queries: heap_type_is_sub_type applied to every pair of heap    *)
(* types over the type lists that one rec group of at most                 *)
(* MaxLatticeTypes sub types can produce.                                  *)
(***************************************************************************)
LatticeConfig ==
    [BaseConfig EXCEPT !.gc_enabled = TRUE,
                       !.shared_everything_threads_enabled = TRUE,
                       !.max_types = MaxLatticeTypes]

LatticeDecisions == {d \in Decisions(LatticeConfig) : ~d.is_final}

LatticeTypeStates ==
    {new_rec_group(LatticeConfig, EmptyTypes, ds) :
        ds \in {x \in UNION {[1..n -> LatticeDecisions] : n \in 0..MaxLatticeTypes} :
                   DecisionsFit(LatticeConfig, EmptyTypes, x)}}

HeapTypes(tys) ==
    {Abstract(s, t) : s \in BOOLEAN, t \in AbstractHeapType}
    \cup {Concrete(i) : i \in 0..(Len(tys) - 1)}

InitLattice ==
    /\ pc = "query"
    /\ cfg = LatticeConfig
    /\ err = "none"
    /\ \E T \in LatticeTypeStates :
           /\ types = T.types
           /\ rec_groups = T.rec_groups
           /\ super_to_sub_types = T.super_to_sub_types
           /\ can_subtype = T.can_subtype
           /\ array_types = T.array_types
           /\ func_types = T.func_types
           /\ struct_types = T.struct_types
    /\ imports = <<>> /\ num_imports = 0
    /\ tags = <<>> /\ funcs = <<>> /\ tables = <<>> /\ globals = <<>>
    /\ memories = <<>>
    /\ num_defined_tags = 0 /\ num_defined_funcs = 0
    /\ num_defined_memories = 0 /\ defined_tables = 0
    /\ defined_globals = <<>>
    /\ exports = <<>> /\ export_names = {}
    /\ type_size = 0
    /\ loop_count = 0 /\ overbudget = 0 /\ underflow = FALSE
    /\ start = NoIndex /\ elems = <<>> /\ data = <<>> /\ code = <<>>
    /\ interesting_values32 = <<>> /\ interesting_values64 = <<>>
    /\ twin_values32 = <<>> /\ twin_values64 = <<>>
    /\ bad_loop = FALSE
    /\ q_a \in HeapTypes(types)
    /\ q_b \in HeapTypes(types)
    /\ q_res = FALSE
    /\ NoGlobalsQuery
    /\ NoCall

HeapTypeIsSubType ==
    /\ pc = "query"
    /\ q_res' = heap_type_is_sub_type(types, q_a, q_b)
    /\ pc' = "answered"
    /\ UNCHANGED <<err, cfg, typevars, impvars, entvars, expvars, type_size,
                   loop_count, overbudget, underflow, q_a, q_b, segvars,
                   valvars, bad_loop, g_ty, g_allow, g_res, n_call, n_ret>>

NextLattice == HeapTypeIsSubType

SpecLattice == InitLattice /\ [][NextLattice]_vars

(***************************************************************************)
(* globals_for_const_expr as a query: a module with some globals, the     *)
(* last of them defined and the others imported, is asked for the globals *)
(* a constant expression of type g_ty may read.                           *)
(***************************************************************************)
QueryConfigs == {[BaseConfig EXCEPT !.gc_enabled = g] : g \in BOOLEAN}

QueryGlobalTypes ==
    {"i32", "mut i32", "i64", "funcref", "mut funcref", "nullfuncref", "externref"}

QueryValTypes ==
    {NumType("I32"), NumType("I64"), ValRef(FUNCREF), ValRef(EXTERNREF),
     ValRef(RefType(TRUE, Abstract(FALSE, "NoFunc")))}

InitGlobals ==
    /\ pc = "globals_query"
    /\ cfg \in QueryConfigs
    /\ err = "none"
    /\ types = <<>> /\ rec_groups = <<>> /\ super_to_sub_types = <<>>
    /\ can_subtype = <<>> /\ array_types = <<>> /\ func_types = <<>>
    /\ struct_types = <<>>
    /\ \E n \in 0..MaxGlobalsLen : \E d \in 0..n :
           /\ globals \in [1..n -> QueryGlobalTypes]
           /\ defined_globals = [k \in 1..d |-> n - d + k - 1]
           /\ imports = [i \in 1..(n - d) |->
                             Import(<<"e">>, <<"g">>, EntityOther("Global", globals[i]))]
           /\ num_imports = n - d
    /\ tags = <<>> /\ funcs = <<>> /\ tables = <<>> /\ memories = <<>>
    /\ num_defined_tags = 0 /\ num_defined_funcs = 0
    /\ num_defined_memories = 0 /\ defined_tables = 0
    /\ exports = <<>> /\ export_names = {}
    /\ type_size = 0
    /\ loop_count = 0 /\ overbudget = 0 /\ underflow = FALSE
    /\ start = NoIndex /\ elems = <<>> /\ data = <<>> /\ code = <<>>
    /\ interesting_values32 = <<>> /\ interesting_values64 = <<>>
    /\ twin_values32 = <<>> /\ twin_values64 = <<>>
    /\ bad_loop = FALSE
    /\ q_a = Abstract(FALSE, "Any") /\ q_b = Abstract(FALSE, "Any")
    /\ q_res = FALSE
    /\ g_ty \in QueryValTypes
    /\ g_allow \in BOOLEAN
    /\ g_res = <<>>
    /\ NoCall

GlobalsForConstExpr ==
    /\ pc = "globals_query"
    /\ g_res' = globals_for_const_expr(ModuleState, cfg, types, g_ty, g_allow)
    /\ pc' = "globals_answered"
    /\ UNCHANGED <<err, cfg, typevars, impvars, entvars, expvars, type_size,
                   loop_count, overbudget, underflow, q_a, q_b, q_res, segvars,
                   valvars, bad_loop, g_ty, g_allow, n_call, n_ret>>

NextGlobals == GlobalsForConstExpr

SpecGlobals == InitGlobals /\ [][NextGlobals]_vars

(***************************************************************************)
(* gradually_grow.  The function converts its u64 arguments to f64, which  *)
(* holds 53 bits of mantissa against the 64 bits of a u64, so the          *)
(* conversion rounds large arguments to the nearest float, ties to even.   *)
(* The model keeps the shape at a small scale: integers up to ExactLimit   *)
(* convert exactly and larger ones round to the nearest multiple of the    *)
(* spacing of their binade.  The arithmetic on the converted values is     *)
(* exact; the u32 drawn is a number in 0..MaxDraw.  A float is written     *)
(* whole + num / den.                                                      *)
(***************************************************************************)
ExactLimit == 8

PCT_INBOUNDS == 995

\* The distance between neighbouring floats at n.
RECURSIVE spacing(_, _)
spacing(n, s) == IF n <= ExactLimit * s THEN s ELSE spacing(n, 2 * s)

\* min as f64: the nearest float, ties to the even mantissa.
to_f64(n) ==
    LET s == spacing(n, 1)
        lo == (n \div s) * s
    IN  IF n = lo THEN n
        ELSE IF 2 * (n - lo) < s THEN lo
        ELSE IF 2 * (n - lo) > s THEN lo + s
        ELSE IF (lo \div s) % 2 = 0 THEN lo ELSE lo + s

Pow6(x) == x * x * x * x * x * x

Float(whole, num, den) == [panic |-> FALSE, whole |-> whole, num |-> num, den |-> den]

Panic == [panic |-> TRUE, whole |-> 0, num |-> 0, den |-> 1]

\* map_linear(num / den, 0.0..1.0, out_low..out_high)
map_linear(num, den, out_low, out_high) ==
    IF ~(out_low < out_high) THEN Panic
    ELSE LET span == out_high - out_low
         IN  Float(out_low + (span \div den) * num, (span % den) * num, den)

map_custom(x, output_inbounds_start, output_inbounds_end, output_start, output_end) ==
    IF \/ ~(output_start < output_end)
       \/ ~(output_start <= output_inbounds_start)
       \/ ~(output_inbounds_end <= output_end)
    THEN Panic
    ELSE IF 1000 * x < PCT_INBOUNDS * MaxDraw
         THEN IF output_inbounds_start = output_inbounds_end
              THEN Float(output_inbounds_start, 0, 1)
              ELSE map_linear(Pow6(x), Pow6(MaxDraw),
                              output_inbounds_start, output_inbounds_end)
         ELSE map_linear(x, MaxDraw, output_start, output_end)

\* x.round()
round(f) == f.whole + (2 * f.num + f.den) \div (2 * f.den)

clamp(v, lo, hi) == IF v < lo THEN lo ELSE IF v > hi THEN hi ELSE v

Grown(value, consumed) == [panic |-> FALSE, value |-> value, consumed |-> consumed]

GrowPanic == [panic |-> TRUE, value |-> 0, consumed |-> TRUE]

gradually_grow(min, max_inbounds, max, x) ==
    IF min = max THEN Grown(min, FALSE)
    ELSE LET f == map_custom(x, to_f64(min), to_f64(max_inbounds),
                             to_f64(min), to_f64(max))
         IN  IF f.panic THEN GrowPanic
             ELSE Grown(clamp(round(f), min, max), TRUE)

(***************************************************************************)
(* arbitrary_limits64, arbitrary_table_type, arbitrary_memtype and          *)
(* arbitrary_offset.  An Option<u64> is the number or None.  u32::MAX and   *)
(* u64::MAX are written at the width of the model's integers.  The draws    *)
(* of a call are d.x (the u32 of gradually_grow), d.has_max and d.top       *)
(* (the maximum drawn is the largest allowed, else the smallest).           *)
(***************************************************************************)
None == 0 - 1

U32_MAX == 1048575

U64_MAX == 1073741823

unwrap_or(o, v) == IF o = None THEN v ELSE o

Limits(minimum, maximum) == [panic |-> FALSE, minimum |-> minimum, maximum |-> maximum]

LimitsPanic == [panic |-> TRUE, minimum |-> 0, maximum |-> None]

arbitrary_limits64(min_minimum, max_minimum, max_required, max_inbounds, d) ==
    IF \/ ~(unwrap_or(min_minimum, 0) <= max_minimum)
       \/ ~(unwrap_or(min_minimum, 0) <= max_inbounds)
    THEN LimitsPanic
    ELSE LET g == gradually_grow(unwrap_or(min_minimum, 0), max_inbounds,
                                 max_minimum, d.x)
         IN  IF g.panic \/ ~(g.value <= max_minimum) THEN LimitsPanic
             ELSE LET min == g.value
                      max == IF max_required \/ d.has_max
                             THEN (IF d.top THEN max_minimum ELSE min)
                             ELSE None
                  IN  IF ~(min <= unwrap_or(max, min)) THEN LimitsPanic
                      ELSE Limits(min, max)

\* arbitrary_table_type up to the limits; c is the Config.
table_limits(c, d) ==
    LET max_inbounds == 10000
        min_elements == IF c.disallow_traps THEN 1 ELSE None
        max_elements == IF unwrap_or(min_elements, 0) > c.max_table_elements
                        THEN unwrap_or(min_elements, 0) ELSE c.max_table_elements
        l == arbitrary_limits64(min_elements, max_elements,
                                c.table_max_size_required,
                                IF max_inbounds < max_elements
                                THEN max_inbounds ELSE max_elements, d)
    IN  IF l.panic THEN LimitsPanic
        ELSE IF c.disallow_traps /\ ~(l.minimum > 0) THEN LimitsPanic
        ELSE l

MemoryType(minimum, maximum, memory64, shared, page_size_log2) ==
    [panic |-> FALSE, minimum |-> minimum, maximum |-> maximum,
     memory64 |-> memory64, shared |-> shared, page_size_log2 |-> page_size_log2]

MemoryPanic ==
    [panic |-> TRUE, minimum |-> 0, maximum |-> None, memory64 |-> FALSE,
     shared |-> FALSE, page_size_log2 |-> None]

\* n >> k
shr(n, k) == n \div (2 ^ k)

\* arbitrary_memtype; d.shared, d.memory64 and d.page_size_log2 are the
\* draws that the config allows.
arbitrary_memtype(c, d) ==
    LET min_pages == IF c.disallow_traps THEN 1 ELSE None
        bytes == IF d.memory64 THEN c.max_memory64_bytes ELSE c.max_memory32_bytes
        limit == IF d.memory64 THEN U64_MAX ELSE U32_MAX
        pages == IF shr(bytes, unwrap_or(d.page_size_log2, 16)) > limit
                 THEN limit ELSE shr(bytes, unwrap_or(d.page_size_log2, 16))
        max_pages == IF unwrap_or(min_pages, 0) > pages
                     THEN unwrap_or(min_pages, 0) ELSE pages
        max_all_mems_in_bytes == 2 ^ 30
        max_this_mem_in_bytes == max_all_mems_in_bytes \div c.max_memories
        max_inbounds == clamp(shr(max_this_mem_in_bytes, unwrap_or(d.page_size_log2, 16)),
                              unwrap_or(min_pages, 0), max_pages)
        l == arbitrary_limits64(min_pages, max_pages,
                                c.memory_max_size_required \/ d.shared,
                                max_inbounds, d)
    IN  IF l.panic THEN MemoryPanic
        ELSE MemoryType(l.minimum, l.maximum, d.memory64, d.shared, d.page_size_log2)

arbitrary_offset(limit_min, limit_max, segment_size, d) ==
    IF segment_size > limit_min
    THEN Grown(IF d.top THEN limit_max ELSE 0, TRUE)
    ELSE gradually_grow(0, limit_min - segment_size, limit_max, d.x)

\* The offset arbitrary_active_elem draws for a table of the minimum given.
elem_offset(c, minimum, table64, d) ==
    arbitrary_offset(minimum,
                     IF c.disallow_traps THEN minimum
                     ELSE IF table64 THEN U64_MAX ELSE U32_MAX,
                     0, d)

(***************************************************************************)
(* The body of the loop of arbitrary_data for an active segment on the     *)
(* memory mem with init_len bytes drawn; globals is the number of globals  *)
(* on offer as offsets and d.choice the entry of choices32 or choices64    *)
(* the oracle picks, 0 for the constant.                                   *)
(***************************************************************************)
I32_MAX == 524287

\* (x as i32) as u64: the sign is extended.
as_i32_as_u64(x) == IF x > I32_MAX THEN U64_MAX - (U32_MAX - x) ELSE x

min_of(a, b) == IF a < b THEN a ELSE b

saturating_mul(a, b) == IF a > U64_MAX \div b THEN U64_MAX ELSE a * b

ActiveData(tag, value, init_len) ==
    [panic |-> FALSE, tag |-> tag, value |-> value, init_len |-> init_len]

DataPanic == [panic |-> TRUE, tag |-> "Const32", value |-> 0, init_len |-> 0]

\* choices32[0] and choices64[0]
data_const_offset(c, mem, data_len, d) ==
    LET min == IF mem.memory64 THEN saturating_mul(mem.minimum, 64 * 1024)
               ELSE min_of(saturating_mul(mem.minimum, 64 * 1024), U32_MAX)
        max == IF c.disallow_traps THEN min
               ELSE IF mem.memory64 THEN U64_MAX ELSE U32_MAX
    IN  arbitrary_offset(min, max, data_len, d)

active_data_segment(c, mem, init_len, d) ==
    LET const == data_const_offset(c, mem, init_len, d)
        tag == IF mem.memory64 THEN "Const64" ELSE "Const32"
    IN  IF d.choice > 0 THEN ActiveData("Global", d.choice - 1, init_len)
        ELSE IF const.panic THEN DataPanic
        ELSE IF c.disallow_traps
             THEN LET max_size == min_of((U64_MAX \div 64) \div 1024, mem.minimum)
                                      * 64 * 1024
                      len == min_of(init_len, max_size)
                      max_offset == max_size - len
                      x == IF mem.memory64 THEN const.value
                           ELSE as_i32_as_u64(const.value)
                  IN  ActiveData(tag, min_of(x, max_offset), len)
             ELSE ActiveData(tag, const.value, init_len)

(***************************************************************************)
(* The helpers on limits and offsets as calls: n_call holds the function   *)
(* and its arguments, n_ret what it returns.                               *)
(***************************************************************************)
Draws ==
    [x : 0..MaxDraw, has_max : BOOLEAN, top : BOOLEAN, shared : BOOLEAN,
     memory64 : BOOLEAN, page_size_log2 : {None, 0, 16}]

\* The limits a Config sets, for what the helpers read of it.
LimitConfigs ==
    [disallow_traps : BOOLEAN, max_table_elements : {0, 1, 20000},
     table_max_size_required : {FALSE}, memory_max_size_required : {FALSE},
     max_memory32_bytes : {0, 65536, 131072}, max_memory64_bytes : {65536},
     max_memories : {1, 2}]

TableCalls ==
    {[fn |-> "arbitrary_table_type", c |-> c, d |-> d] :
        c \in {c \in LimitConfigs : c.max_memory32_bytes = 0 /\ c.max_memories = 1},
        d \in {d \in Draws : ~d.memory64 /\ d.page_size_log2 = None /\ ~d.shared}}

MemoryCalls ==
    {[fn |-> "arbitrary_memtype", c |-> c, d |-> d] :
        c \in {c \in LimitConfigs : c.max_table_elements = 0},
        d \in {d \in Draws : d.top}}

ElemOffsetCalls ==
    {[fn |-> "elem_offset", c |-> c, minimum |-> m, table64 |-> t, d |-> d] :
        c \in {c \in LimitConfigs : /\ c.max_table_elements = 0
                                     /\ c.max_memory32_bytes = 0
                                     /\ c.max_memories = 1},
        m \in {0, 1, 20000}, t \in BOOLEAN,
        d \in {d \in Draws : /\ ~d.memory64 /\ d.page_size_log2 = None
                              /\ ~d.has_max /\ d.top /\ ~d.shared}}

\* Active segments on the memories arbitrary_memtype produces.
DataCalls ==
    {[fn |-> "arbitrary_data", c |-> call.c,
      mem |-> arbitrary_memtype(call.c, call.d), init_len |-> n,
      globals |-> g, d |-> [x |-> x, top |-> t, choice |-> ch]] :
        call \in {call \in MemoryCalls : call.c.max_memories = 1 /\ ~call.d.shared},
        n \in {0, 1, 2, 65536, 65537}, g \in {0, 1},
        x \in 0..MaxDraw, t \in BOOLEAN, ch \in {0, 1}}

GrowCalls ==
    {[fn |-> "gradually_grow", min |-> a, max_inbounds |-> b, max |-> c, x |-> x] :
        a \in 0..MaxValue, b \in 0..MaxValue, c \in 0..MaxValue, x \in 0..MaxDraw}

InitCalls ==
    /\ pc = "call"
    /\ cfg = BaseConfig
    /\ EmptyBuild
    /\ q_a = Abstract(FALSE, "Any") /\ q_b = Abstract(FALSE, "Any")
    /\ q_res = FALSE
    /\ NoGlobalsQuery
    /\ n_call \in {c \in GrowCalls : c.min <= c.max_inbounds /\ c.max_inbounds <= c.max}
                 \cup TableCalls \cup MemoryCalls \cup ElemOffsetCalls
                 \cup {call \in DataCalls :
                           /\ ~call.mem.panic
                           /\ call.d.choice <=
                                  (IF call.c.disallow_traps THEN 0 ELSE call.globals)}
    /\ n_ret = [panic |-> FALSE]

Return(r) ==
    /\ n_ret' = r
    /\ pc' = "returned"
    /\ UNCHANGED <<err, cfg, typevars, impvars, entvars, expvars, type_size,
                   loop_count, overbudget, underflow, q_a, q_b, q_res, segvars,
                   valvars, bad_loop, g_ty, g_allow, g_res, n_call>>

GraduallyGrow ==
    /\ pc = "call"
    /\ n_call.fn = "gradually_grow"
    /\ Return(gradually_grow(n_call.min, n_call.max_inbounds, n_call.max, n_call.x))

ArbitraryTableType ==
    /\ pc = "call"
    /\ n_call.fn = "arbitrary_table_type"
    /\ Return(table_limits(n_call.c, n_call.d))

ArbitraryMemtype ==
    /\ pc = "call"
    /\ n_call.fn = "arbitrary_memtype"
    /\ Return(arbitrary_memtype(n_call.c, n_call.d))

ArbitraryActiveElemOffset ==
    /\ pc = "call"
    /\ n_call.fn = "elem_offset"
    /\ Return(elem_offset(n_call.c, n_call.minimum, n_call.table64, n_call.d))

ArbitraryActiveData ==
    /\ pc = "call"
    /\ n_call.fn = "arbitrary_data"
    /\ Return(active_data_segment(n_call.c, n_call.mem, n_call.init_len, n_call.d))

NextCalls ==
    \/ ArbitraryActiveData
    \/ GraduallyGrow
    \/ ArbitraryTableType
    \/ ArbitraryMemtype
    \/ ArbitraryActiveElemOffset

SpecCalls == InitCalls /\ [][NextCalls]_vars

(***************************************************************************)
(* Properties of the subtype lattice (SpecLattice).                        *)
(***************************************************************************)
AnyHierarchy == {"Any", "Eq", "Struct", "Array", "I31", "None"}

Hierarchies ==
    {AnyHierarchy, {"Func", "NoFunc"}, {"Extern", "NoExtern"}, {"Exn", "NoExn"}}

\* The documented lattice on abstract tags, as pairs <<sub, super>>.
DocumentedPairs ==
    ({"Eq", "Struct", "Array", "I31", "None"} \X {"Any"})
    \cup ({"Struct", "Array", "I31", "None"} \X {"Eq"})
    \cup ({"None"} \X {"Struct", "Array", "I31"})
    \cup {<<"NoFunc", "Func">>, <<"NoExtern", "Extern">>, <<"NoExn", "Exn">>}

KindsUnder(b) ==
    CASE b \in {"Any", "Eq"} -> {"Struct", "Array"}
      [] b = "Struct" -> {"Struct"}
      [] b = "Array" -> {"Array"}
      [] b = "Func" -> {"Func"}
      [] OTHER -> {}

DocumentedSubType(tys, a, b) ==
    CASE a.tag = "Abstract" /\ b.tag = "Abstract" ->
             \/ a = b
             \/ a.shared = b.shared /\ <<a.ty, b.ty>> \in DocumentedPairs
      [] a.tag = "Concrete" /\ b.tag = "Abstract" ->
             /\ tys[a.idx + 1].composite_type.shared = b.shared
             /\ tys[a.idx + 1].composite_type.inner \in KindsUnder(b.ty)
      [] a.tag = "Abstract" /\ b.tag = "Concrete" ->
             /\ a.shared = tys[b.idx + 1].composite_type.shared
             /\ \/ a.ty = "None"
                   /\ tys[b.idx + 1].composite_type.inner \in {"Struct", "Array"}
                \/ a.ty = "NoFunc"
                   /\ tys[b.idx + 1].composite_type.inner = "Func"
      [] OTHER -> FALSE

SharedBit(tys, h) ==
    IF h.tag = "Abstract" THEN h.shared ELSE tys[h.idx + 1].composite_type.shared

\* C2: on every pair that involves an abstract heap type the answer of
\* heap_type_is_sub_type is the documented lattice's, and it is false
\* whenever the shared bits of the two types differ.
C2_AgreesWithLattice ==
    (pc = "answered" /\ (q_a.tag = "Abstract" \/ q_b.tag = "Abstract"))
        => /\ q_res = DocumentedSubType(types, q_a, q_b)
           /\ (SharedBit(types, q_a) # SharedBit(types, q_b) => ~q_res)

\* A shared concrete struct was asked against shared eq and is below it.
C2_Witness ==
    /\ pc = "answered"
    /\ q_a.tag = "Concrete"
    /\ types[q_a.idx + 1].composite_type.inner = "Struct"
    /\ types[q_a.idx + 1].composite_type.shared
    /\ q_b = Abstract(TRUE, "Eq")
    /\ q_res

IsSub(a, b) == heap_type_is_sub_type(types, a, b)

HierarchyOf(t) == {h \in Hierarchies : t \in h}

\* C3: on abstract heap types with equal shared bits the relation is
\* reflexive, antisymmetric and transitive, and the func, extern, exn and
\* any hierarchies are unrelated to one another in both directions.
C3_PartialOrder ==
    (pc = "answered" /\ q_a.tag = "Abstract" /\ q_b.tag = "Abstract"
        /\ q_a.shared = q_b.shared)
        => /\ q_res = IsSub(q_a, q_b)
           /\ IsSub(q_a, q_a)
           /\ (q_res /\ IsSub(q_b, q_a) => q_a = q_b)
           /\ \A t \in AbstractHeapType :
                  (q_res /\ IsSub(q_b, Abstract(q_a.shared, t)))
                      => IsSub(q_a, Abstract(q_a.shared, t))
           /\ (HierarchyOf(q_a.ty) # {} /\ HierarchyOf(q_b.ty) # {}
                  /\ HierarchyOf(q_a.ty) # HierarchyOf(q_b.ty)) => ~q_res

\* none was asked against eq, a step of the chain none <= eq <= any.
C3_Witness ==
    /\ pc = "answered"
    /\ q_a = Abstract(FALSE, "None")
    /\ q_b = Abstract(FALSE, "Eq")
    /\ q_res
    /\ IsSub(q_b, Abstract(FALSE, "Any"))

(***************************************************************************)
(* Properties of the type list (Spec).                                     *)
(***************************************************************************)
\* C4: every type with a supertype is a subtype of it and is one deeper;
\* every type without a supertype has depth 1.
C4_SupertypeChain ==
    \A i \in 1..Len(types) :
        IF types[i].supertype # NoSuper
        THEN /\ heap_type_is_sub_type(types, Concrete(i - 1),
                                      Concrete(types[i].supertype))
             /\ types[i].depth = 1 + ty(types, types[i].supertype).depth
        ELSE types[i].depth = 1

\* A finished build holds a generated chain of three types.
C4_Witness ==
    /\ pc = "built"
    /\ \E i \in 1..Len(types) :
           /\ types[i].depth = 3
           /\ types[i].supertype # NoSuper
           /\ ty(types, types[i].supertype).supertype # NoSuper

\* The types a template put at the front of the type list.
TemplateTypeCount ==
    (IF cfg.module_shape.present THEN Len(cfg.module_shape.types) ELSE 0)
    + (IF cfg.available_imports.present
       THEN Len(cfg.available_imports.types) ELSE 0)

\* C5: every index of the can_subtype pool names a non-final type of depth
\* below MAX_SUBTYPING_DEPTH, and no type made by extending a pool member is
\* deeper than MAX_SUBTYPING_DEPTH.
C5_PoolBelowCeiling ==
    /\ \A k \in 1..Len(can_subtype) :
           /\ can_subtype[k] < Len(types)
           /\ ~ty(types, can_subtype[k]).is_final
           /\ ty(types, can_subtype[k]).depth < MAX_SUBTYPING_DEPTH
    /\ \A i \in 1..Len(types) :
           (i > TemplateTypeCount /\ types[i].supertype # NoSuper)
               => types[i].depth <= MAX_SUBTYPING_DEPTH

InPool(idx) == \E k \in 1..Len(can_subtype) : can_subtype[k] = idx

\* A generated non-final type reached the ceiling and is kept out of the
\* pool, while its supertype one below the ceiling is in it.
C5_Witness ==
    \E i \in 1..Len(types) :
        /\ i > TemplateTypeCount
        /\ types[i].depth = MAX_SUBTYPING_DEPTH
        /\ ~types[i].is_final
        /\ ~InPool(i - 1)
        /\ InPool(types[i].supertype)

\* C6: once a type-adding operation has completed, rec_groups partitions
\* the type list into contiguous ranges from 0 to types.len().
C6_RecGroupsPartition ==
    err = "none" =>
        IF rec_groups = <<>> THEN types = <<>>
        ELSE /\ rec_groups[1].start = 0
             /\ \A g \in 1..Len(rec_groups) :
                    rec_groups[g].start <= rec_groups[g].end
             /\ \A g \in 1..(Len(rec_groups) - 1) :
                    rec_groups[g + 1].start = rec_groups[g].end
             /\ rec_groups[Len(rec_groups)].end = Len(types)

\* Template groups, a generated group and a clone of a two-type group.
C6_Witness ==
    /\ pc = "built"
    /\ cfg.module_shape.present
    /\ Len(rec_groups) = Len(cfg.module_shape.recgrps) + 1
    /\ \E g \in 1..Len(rec_groups) : rec_groups[g].end - rec_groups[g].start = 2

(***************************************************************************)
(* Properties of the type-size budget and of the export list (Spec).       *)
(***************************************************************************)
\* 1 + size of every import from position from on.
RECURSIVE imports_cost(_, _)
imports_cost(imps, from) ==
    IF from > Len(imps) THEN 0
    ELSE 1 + size(imps[from].entity_type) + imports_cost(imps, from + 1)

\* 1 + size of every export from position from on, in module M.
RECURSIVE exports_cost(_, _, _)
exports_cost(M, exs, from) ==
    IF from > Len(exs) THEN 0
    ELSE 1 + size(type_of(M, exs[from].kind, exs[from].index))
         + exports_cost(M, exs, from + 1)

\* What the imports and exports appended by a step cost.
AddedCost ==
    imports_cost(imports', Len(imports) + 1)
    + exports_cost(ModuleState', exports', Len(exports) + 1)

\* C7: every import and every export added, on every path, raises type_size
\* by exactly 1 + size of its entity type.
C7_EveryAdditionCharged ==
    [][err' = "none" => type_size' = type_size + AddedCost]_vars

\* C8: while the build has not failed type_size is at most max_type_size, no
\* import is added whose cost 1 + size exceeds the remaining budget, and
\* max_type_size - type_size never underflows.
C8_WithinBudget ==
    /\ err = "none" => type_size <= cfg.max_type_size
    /\ overbudget = 0
    /\ ~underflow

\* C9: an export whose cost 1 + size takes type_size above max_type_size is
\* never appended, on any export path; a step fails with IncorrectFormat
\* only when an export overflowed, and then the cost stays in type_size.
C9_OverflowingExportFails ==
    [][LET cost == exports_cost(ModuleState', exports', Len(exports) + 1)
       IN  /\ Len(exports') > Len(exports)
                  => type_size + cost <= cfg.max_type_size
           /\ err' = "IncorrectFormat"
                  => /\ pc' = "failed"
                     /\ type_size' > cfg.max_type_size
                     /\ type_size' > type_size + cost]_vars

Phases == 1..12

PcRank(p) ==
    CASE p \in {"module_shape", "available_imports"} -> 0
      [] p = "types" -> 1
      [] p = "imports" -> 2
      [] p = "tags" -> 3
      [] p = "funcs" -> 4
      [] p = "tables" -> 5
      [] p = "memories" -> 6
      [] p = "globals" -> 7
      [] p = "exports" -> 8
      [] p = "start" -> 9
      [] p = "elems" -> 10
      [] p = "data" -> 11
      [] p = "code" -> 12
      [] OTHER -> 13

Count(k) ==
    CASE k = 1 -> Len(types)
      [] k = 2 -> Len(imports)
      [] k = 3 -> num_defined_tags
      [] k = 4 -> num_defined_funcs
      [] k = 5 -> defined_tables
      [] k = 6 -> num_defined_memories
      [] k = 7 -> Len(defined_globals)
      [] k = 8 -> Len(exports)
      [] k = 9 -> IF start = NoIndex THEN 0 ELSE 1
      [] k = 10 -> Len(elems)
      [] k = 11 -> Len(data)
      [] OTHER -> Len(code)

\* The step creates an entity of phase k.
Created(k) == Count(k)' > Count(k)

\* Phase k has started: build has reached it or one of its entities exists.
Started(k) == PcRank(pc) >= k \/ Count(k) > 0

TemplateStep ==
    \/ pc \in {"module_shape", "available_imports"}
    \/ pc = "exports" /\ cfg.exports.present

\* The phases whose entities the step at pc may create.
StepPhases ==
    IF pc = "module_shape" THEN 1..8
    ELSE IF pc = "available_imports" THEN {1, 2}
    ELSE IF pc = "exports" /\ cfg.exports.present THEN {1} \cup 3..8
    ELSE {PcRank(pc)}

IsPrefix(a, b) == Len(a) <= Len(b) /\ SubSeq(b, 1, Len(a)) = a

\* The lists of the module only grow at their end.
AppendOnly ==
    /\ IsPrefix(types, types') /\ IsPrefix(imports, imports')
    /\ IsPrefix(tags, tags') /\ IsPrefix(funcs, funcs')
    /\ IsPrefix(tables, tables') /\ IsPrefix(memories, memories')
    /\ IsPrefix(globals, globals') /\ IsPrefix(exports, exports')
    /\ IsPrefix(elems, elems') /\ IsPrefix(data, data')

\* The entities the step creates refer to entities below the given
\* lengths of the type list and of the index spaces.
NewRefsBelow(ntypes, M) ==
    /\ \A i \in (Len(funcs) + 1)..Len(funcs') : funcs'[i].ty < ntypes
    /\ \A i \in (Len(tags) + 1)..Len(tags') : tags'[i].func_type_idx < ntypes
    /\ \A i \in (Len(exports) + 1)..Len(exports') :
           exports'[i].index < space_len(M, exports'[i].kind)
    /\ start' # start => start' < Len(M.funcs)
    /\ \A i \in (Len(elems) + 1)..Len(elems') :
           /\ elems'[i].table < Len(M.tables)
           /\ \A n \in 1..Len(elems'[i].items.init) :
                  IF elems'[i].items.tag = "Functions"
                  THEN elems'[i].items.init[n] < Len(M.funcs)
                  ELSE elems'[i].items.init[n].op = "ref_func"
                           => elems'[i].items.init[n].idx < Len(M.funcs)
    /\ \A i \in (Len(data) + 1)..Len(data') :
           data'[i].memory_index < Len(M.memories)

IsFuncType(idx, sig) ==
    /\ 0 <= idx /\ idx < Len(types)
    /\ ty(types, idx).composite_type.inner = "Func"
    /\ ty(types, idx).composite_type.params = sig.params
    /\ ty(types, idx).composite_type.results = sig.results

ElemFuncIndices(seg) ==
    IF seg.items.tag = "Functions" THEN SeqRange(seg.items.init)
    ELSE {seg.items.init[n].idx : n \in {m \in 1..Len(seg.items.init) :
                                           seg.items.init[m].op = "ref_func"}}

SameImport(im, t, tpl) ==
    /\ im.module = t.module
    /\ im.field = t.field
    /\ im.entity_type.kind = t.kind
    /\ IF t.kind \in {"Func", "Tag"}
       THEN /\ im.entity_type.idx = t.idx
            /\ im.entity_type.sig.params = tpl.types[t.idx + 1].composite_type.params
            /\ im.entity_type.sig.results = tpl.types[t.idx + 1].composite_type.results
       ELSE im.entity_type.ty = t.ty

\* C13: from the module-shape step on, the import list of a build given a
\* module shape has the template's (module, field, kind, type) entries in
\* the template's order and the export list has the template's (name,
\* kind) entries in the template's order, and neither list holds anything
\* else.
C13_ShapeRoundTrip ==
    cfg.module_shape.present /\ pc # "module_shape" =>
        LET tpl == cfg.module_shape
        IN  /\ Len(imports) = Len(tpl.imports)
            /\ \A i \in 1..Len(imports) : SameImport(imports[i], tpl.imports[i], tpl)
            /\ Len(exports) = Len(tpl.exports)
            /\ \A i \in 1..Len(exports) :
                   /\ exports[i].name = tpl.exports[i].name
                   /\ exports[i].kind = tpl.exports[i].kind

\* A module built from the shape with two imports and four exports.
C13_Witness ==
    /\ pc = "built"
    /\ cfg.module_shape = ShapeTemplate
    /\ Len(imports) = 2
    /\ Len(exports) = 4

Injections(n, m) ==
    {f \in [1..n -> 1..m] : \A i, j \in 1..n : f[i] = f[j] => i = j}

Masks(tpl) == [1..Len(tpl.imports) -> BOOLEAN]

\* The imports the available-imports step leaves under the decisions.
ImportsUnder(mask) ==
    arbitrary_imports_from_available(ModuleState, cfg, cfg.available_imports,
                                     mask).imports

\* Some decisions make the step take the template's j-th import.
Includable(j) ==
    \E mask \in Masks(cfg.available_imports) :
        \E i \in 1..Len(ImportsUnder(mask)) :
            SameImport(ImportsUnder(mask)[i], cfg.available_imports.imports[j],
                       cfg.available_imports)

\* Some decisions make the step take some imports and leave others.
PartlyIncludable ==
    \E mask \in Masks(cfg.available_imports) :
        /\ Len(ImportsUnder(mask)) > 0
        /\ Len(ImportsUnder(mask)) < Len(cfg.available_imports.imports)

\* The template's j-th import is below its kind's ceiling and within the
\* type-size budget when it is the only import taken.
FitsAlone(j) ==
    LET im == cfg.available_imports.imports[j]
        e == template_entity(template_types(cfg.available_imports.types, <<>>), im)
    IN  /\ can_add_kind(ModuleState, cfg, im.kind)
        /\ size(e) <= cfg.max_type_size - type_size

AtAvailableImports == pc = "available_imports" /\ cfg.available_imports.present

AfterExports == {"start", "elems", "data", "code", "built"}

\* The index names an entity the module defines, not one it imports.
DefinedIndex(kind, idx) ==
    CASE kind = "Func" ->
             Len(funcs) - num_defined_funcs <= idx /\ idx < Len(funcs)
      [] kind = "Tag" ->
             Len(tags) - num_defined_tags <= idx /\ idx < Len(tags)
      [] kind = "Memory" ->
             Len(memories) - num_defined_memories <= idx /\ idx < Len(memories)
      [] kind = "Table" ->
             Len(tables) - defined_tables <= idx /\ idx < Len(tables)
      [] OTHER ->
             idx < Len(globals) /\ \E k \in 1..Len(defined_globals) : defined_globals[k] = idx

\* The entity at the index has the type the template's export requires.
HasRequiredType(ex, idx) ==
    CASE ex.kind = "Func" ->
             /\ funcs[idx + 1].sig = ex.sig
             /\ funcs[idx + 1].ty < Len(types)
             /\ types[funcs[idx + 1].ty + 1] = required_type(ex)
      [] ex.kind = "Tag" ->
             /\ tags[idx + 1].func_type = ex.sig
             /\ tags[idx + 1].func_type_idx < Len(types)
             /\ types[tags[idx + 1].func_type_idx + 1] = required_type(ex)
      [] ex.kind = "Memory" -> memories[idx + 1] = ex.ty
      [] ex.kind = "Table" -> tables[idx + 1] = ex.ty
      [] OTHER -> globals[idx + 1] = ex.ty

\* One export per export of the template, in its order, each naming a
\* defined entity of the required type that no other export names.
ExportsAsRequired ==
    LET req == cfg.exports.exports
    IN  /\ Len(exports) = Len(req)
        /\ \A i \in 1..Len(exports) :
               /\ exports[i].name = req[i].name
               /\ exports[i].kind = req[i].kind
               /\ DefinedIndex(exports[i].kind, exports[i].index)
               /\ HasRequiredType(req[i], exports[i].index)
               /\ \A j \in 1..Len(exports) :
                      /\ exports[j].kind = exports[i].kind
                      /\ exports[j].index = exports[i].index
                      => i = j

\* The export step names no entity that existed before it.
ExportsNameNewEntities ==
    pc = "exports" /\ cfg.exports.present /\ pc' \in AfterExports =>
        \A i \in 1..Len(exports') :
            exports'[i].index >= space_len(ModuleState, exports'[i].kind)

PlainTypes ==
    /\ ~cfg.gc_enabled
    /\ ~cfg.module_shape.present
    /\ ~cfg.available_imports.present

\* The positions of build between type generation and the export step.
AfterTypes == {"imports", "tags", "funcs", "tables", "memories", "globals", "exports"}

\* Every type is a final function type without a supertype, of depth 1,
\* alone in its rec group.
OnlyPlainFuncTypes ==
    /\ \A i \in 1..Len(types) :
           /\ types[i].composite_type.inner = "Func"
           /\ types[i].is_final
           /\ types[i].supertype = NoSuper
           /\ types[i].depth = 1
    /\ Len(rec_groups) = Len(types)
    /\ \A g \in 1..Len(rec_groups) : rec_groups[g] = Range(g - 1, g)

\* C18: without GC and without a template module, type generation
\* creates only function types, each final, without a supertype, of
\* depth 1 and alone in its rec group, and it ends with at least
\* min_types and at most max_types of them, so with exactly n when both
\* are n.
C18_PlainTypes ==
    PlainTypes =>
        /\ pc = "types" => OnlyPlainFuncTypes /\ Len(types) <= cfg.max_types
        /\ pc \in AfterTypes =>
               /\ OnlyPlainFuncTypes
               /\ cfg.min_types <= Len(types)
               /\ Len(types) <= cfg.max_types

\* Type generation ended with exactly the two types that min_types =
\* max_types = 2 ask for.
C18_Witness ==
    /\ pc = "imports"
    /\ PlainTypes
    /\ cfg.min_types = 2 /\ cfg.max_types = 2
    /\ Len(types) = 2

\* The global at the index is imported: it is none of the defined ones.
ImportedGlobal(i) == \A k \in 1..Len(defined_globals) : defined_globals[k] # i

\* The global at the index may be read by a constant expression of type
\* g_ty.
EligibleGlobal(i) ==
    /\ ~global_type(globals[i + 1]).mutable
    /\ val_type_is_sub_type(types, global_type(globals[i + 1]).val_type, g_ty)
    /\ ImportedGlobal(i) \/ (cfg.gc_enabled /\ g_allow)

\* C19: globals_for_const_expr(ty, allow_defined_globals) yields exactly
\* the indices of the immutable globals whose value type is a subtype of
\* ty and that are imported, and those of the defined globals of that
\* sort only if GC is enabled and allow_defined_globals is true; it
\* yields no mutable global, and it yields the indices in ascending order.
C19_GlobalsForConstExpr ==
    pc = "globals_answered" =>
        /\ SeqRange(g_res) = {i \in 0..(Len(globals) - 1) : EligibleGlobal(i)}
        /\ \A k \in 1..Len(g_res) : ~global_type(globals[g_res[k] + 1]).mutable
        /\ \A k \in 1..(Len(g_res) - 1) : g_res[k] < g_res[k + 1]

\* A query with GC enabled and defined globals allowed that yields an
\* imported and a defined global and leaves a mutable one out.
C19_Witness ==
    /\ pc = "globals_answered"
    /\ cfg.gc_enabled /\ g_allow
    /\ globals = <<"i32", "mut i32", "i32">>
    /\ defined_globals = <<1, 2>>
    /\ g_ty = NumType("I32")
    /\ g_res = <<0, 2>>

\* The max the running arbitrary_loop of build was called with; no loop
\* runs at the other positions.
RunningLoopMax ==
    CASE pc = "imports" -> cfg.max_imports
      [] pc = "tags" -> cfg.max_tags
      [] pc = "funcs" -> cfg.max_funcs
      [] pc = "tables" -> cfg.max_tables
      [] pc = "memories" -> cfg.max_memories
      [] pc = "globals" -> cfg.max_globals
      [] pc = "exports" -> cfg.max_exports
      [] pc = "elems" -> cfg.max_element_segments
      [] pc = "data" -> cfg.max_data_segments
      [] OTHER -> loop_count

\* The loops of build stay within their max.
LoopsWithinMax == loop_count <= RunningLoopMax

\* C20: arbitrary_loop(min, max, body) is never called with min above
\* max, and no loop of build calls its body more than max times.
C20_LoopContract == ~bad_loop /\ LoopsWithinMax

\* No assertion fails in the calls the build makes.
CallSitesInRange ==
    pc = "returned" /\ n_call.fn # "gradually_grow" => ~n_ret.panic

\* gradually_grow returned a value between min and max, and min without
\* a draw when min = max.
GrowInRange ==
    pc = "returned" /\ n_call.fn = "gradually_grow" =>
        /\ ~n_ret.panic
        /\ n_call.min <= n_ret.value /\ n_ret.value <= n_call.max
        /\ n_call.min = n_call.max => n_ret.value = n_call.min /\ ~n_ret.consumed

min_size_in_bytes(mem) == mem.minimum * (2 ^ unwrap_or(mem.page_size_log2, 16))

\* The segment fits when its memory has pages of the default size.
DataFitsDefaultPages ==
    /\ pc = "returned" /\ n_call.fn = "arbitrary_data" /\ n_call.c.disallow_traps
    /\ unwrap_or(n_call.mem.page_size_log2, 16) = 16
    => n_ret.value + n_ret.init_len <= min_size_in_bytes(n_call.mem)

\* C22: with disallow_traps, every active data segment has a constant
\* offset, and its offset plus the length of its bytes is at most the
\* least size in bytes of its memory, whatever the memory's index width
\* and page size.
C22_DataFitsMemory ==
    pc = "returned" /\ n_call.fn = "arbitrary_data" /\ n_call.c.disallow_traps =>
        /\ ~n_ret.panic
        /\ n_ret.tag # "Global"
        /\ n_ret.value + n_ret.init_len <= min_size_in_bytes(n_call.mem)

(***************************************************************************)
(* Matching types: the sub type that arbitrary_sub_type_of_super_type      *)
(* derives from its supertype, and the heap types that                     *)
(* arbitrary_matching_heap_type and arbitrary_super_type_of_heap_type      *)
(* choose among.  Each operator is the set of the results of the function  *)
(* over the entries u.choose can pick.  A storage type is a value type or  *)
(* one of the packed kinds I8 and I16; a composite type here carries its   *)
(* fields (one for an array) or its signature.                             *)
(***************************************************************************)
MaxExtraFields == 1      \* fields a matching struct type adds (5 in the code)

FieldType(element_type, mutable) ==
    [element_type |-> element_type, mutable |-> mutable]

FullComposite(inner, shared, fields, params, results) ==
    [inner |-> inner, shared |-> shared, fields |-> fields,
     params |-> params, results |-> results]

add_abstract(shared, tys) == {Abstract(shared, t) : t \in tys}

add_concrete(T, shared, tys) ==
    {Concrete(tys[i]) :
        i \in {j \in 1..Len(tys) : shared = is_shared_type(T.types, tys[j])}}

\* self.super_to_sub_types.get(&idx)
sub_types_of(T, idx) ==
    IF idx < Len(T.super_to_sub_types)
    THEN {Concrete(T.super_to_sub_types[idx + 1][i]) :
              i \in 1..Len(T.super_to_sub_types[idx + 1])}
    ELSE {}

arbitrary_matching_heap_type(c, T, t) ==
    IF ~c.gc_enabled THEN {t}
    ELSE {t} \cup
         IF t.tag = "Abstract"
         THEN CASE t.ty = "Any" ->
                       add_abstract(t.shared, {"Eq", "Struct", "Array", "I31", "None"})
                       \cup add_concrete(T, t.shared, T.array_types)
                       \cup add_concrete(T, t.shared, T.struct_types)
                [] t.ty = "Eq" ->
                       add_abstract(t.shared, {"Struct", "Array", "I31", "None"})
                       \cup add_concrete(T, t.shared, T.array_types)
                       \cup add_concrete(T, t.shared, T.struct_types)
                [] t.ty = "Struct" ->
                       add_abstract(t.shared, {"Struct", "None"})
                       \cup add_concrete(T, t.shared, T.struct_types)
                [] t.ty = "Array" ->
                       add_abstract(t.shared, {"Array", "None"})
                       \cup add_concrete(T, t.shared, T.array_types)
                [] t.ty = "I31" -> add_abstract(t.shared, {"None"})
                [] t.ty = "Func" ->
                       add_abstract(t.shared, {"NoFunc"})
                       \cup add_concrete(T, t.shared, T.func_types)
                [] t.ty = "Extern" -> add_abstract(t.shared, {"NoExtern"})
                [] OTHER -> {}
         ELSE sub_types_of(T, t.idx) \cup
              IF t.idx < Len(T.types)
              THEN LET ct == ty(T.types, t.idx).composite_type
                   IN  IF ct.inner \in {"Array", "Struct"}
                       THEN {Abstract(ct.shared, "None")}
                       ELSE {Abstract(ct.shared, "NoFunc")}
              ELSE {}

\* The while loop over the supertypes of a concrete type.
RECURSIVE supertypes_of(_, _)
supertypes_of(tys, idx) ==
    IF idx < Len(tys) /\ ty(tys, idx).supertype # NoSuper
    THEN {Concrete(ty(tys, idx).supertype)}
         \cup supertypes_of(tys, ty(tys, idx).supertype)
    ELSE {}

arbitrary_super_type_of_heap_type(c, T, t) ==
    IF ~c.gc_enabled THEN {t}
    ELSE {t} \cup
         IF t.tag = "Abstract"
         THEN CASE t.ty = "None" ->
                       add_abstract(t.shared, {"Any", "Eq", "Struct", "Array", "I31"})
                       \cup add_concrete(T, t.shared, T.array_types)
                       \cup add_concrete(T, t.shared, T.struct_types)
                [] t.ty = "NoExtern" -> add_abstract(t.shared, {"Extern"})
                [] t.ty = "NoFunc" ->
                       add_abstract(t.shared, {"Func"})
                       \cup add_concrete(T, t.shared, T.func_types)
                [] t.ty = "NoExn" -> add_abstract(t.shared, {"Exn"})
                [] t.ty \in {"Struct", "Array", "I31"} ->
                       add_abstract(t.shared, {"Any", "Eq"})
                [] t.ty = "Eq" -> add_abstract(t.shared, {"Any"})
                [] t.ty = "NoCont" -> add_abstract(t.shared, {"Cont"})
                [] OTHER -> {}
         ELSE (IF t.idx < Len(T.types)
               THEN LET ct == ty(T.types, t.idx).composite_type
                    IN  CASE ct.inner = "Array" ->
                                 add_abstract(ct.shared, {"Any", "Eq", "Array"})
                          [] ct.inner = "Func" -> add_abstract(ct.shared, {"Func"})
                          [] OTHER -> add_abstract(ct.shared, {"Any", "Eq", "Struct"})
               ELSE {})
              \cup supertypes_of(T.types, t.idx)

matching_ref_type(c, T, t) ==
    {RefType(t.nullable, h) : h \in arbitrary_matching_heap_type(c, T, t.heap_type)}

arbitrary_matching_val_type(c, T, t) ==
    IF t.kind = "Ref" THEN {ValRef(r) : r \in matching_ref_type(c, T, t.ref)}
    ELSE {t}

arbitrary_matching_storage_type(c, T, t) ==
    IF t.kind \in {"I8", "I16"} THEN {t}
    ELSE arbitrary_matching_val_type(c, T, t)

arbitrary_matching_field_type(c, T, t) ==
    IF t.mutable THEN {t}
    ELSE {FieldType(e, FALSE) :
              e \in arbitrary_matching_storage_type(c, T, t.element_type)}

arbitrary_super_type_of_ref_type(c, T, t) ==
    {RefType(TRUE, h) : h \in arbitrary_super_type_of_heap_type(c, T, t.heap_type)}

arbitrary_super_type_of_val_type(c, T, t) ==
    IF t.kind = "Ref"
    THEN {ValRef(r) : r \in arbitrary_super_type_of_ref_type(c, T, t.ref)}
    ELSE {t}

\* Every way of replacing each entry of tys by one of the members of f at it.
RECURSIVE each_of(_, _, _, _)
each_of(f(_, _, _), c, T, tys) ==
    IF tys = <<>> THEN {<<>>}
    ELSE {<<h>> \o t : h \in f(c, T, Head(tys)), t \in each_of(f, c, T, Tail(tys))}

\* The fields that arbitrary_field_type appends to a matching struct type.
ExtraFieldTypes ==
    {FieldType(NumType("I32"), TRUE),
     FieldType(ValRef(RefType(TRUE, Abstract(FALSE, "Any"))), FALSE)}

ExtraFields == UNION {[1..n -> ExtraFieldTypes] : n \in 0..MaxExtraFields}

arbitrary_matching_struct_type(c, T, fields) ==
    {m \o extra : m \in each_of(arbitrary_matching_field_type, c, T, fields),
                  extra \in ExtraFields}

arbitrary_matching_func_type_Covariant(c, T, f) ==
    {[params |-> p, results |-> r] :
        p \in each_of(arbitrary_matching_val_type, c, T, f.params),
        r \in each_of(arbitrary_matching_val_type, c, T, f.results)}

arbitrary_matching_func_type(c, T, f) ==
    {[params |-> p, results |-> r] :
        p \in each_of(arbitrary_super_type_of_val_type, c, T, f.params),
        r \in each_of(arbitrary_matching_val_type, c, T, f.results)}

\* The match of arbitrary_sub_type_of_super_type on the clone of the
\* supertype's composite type.
matching_composite_type(c, T, s) ==
    CASE s.inner = "Array" ->
             {[s EXCEPT !.fields = <<a>>] :
                  a \in arbitrary_matching_field_type(c, T, s.fields[1])}
      [] s.inner = "Func" ->
             {[s EXCEPT !.params = f.params, !.results = f.results] :
                  f \in arbitrary_matching_func_type(c, T, s)}
      [] OTHER ->
             {[s EXCEPT !.fields = f] :
                  f \in arbitrary_matching_struct_type(c, T, s.fields)}

(***************************************************************************)
(* The calls of the matching functions: a type list that one rec group     *)
(* produces, and either a heap type or a supertype of the list with the    *)
(* contents of its composite type.  Heap types are the ones                *)
(* arbitrary_heap_type draws; a concrete index may lie one past the list,  *)
(* as a reference into the rec group under construction does.              *)
(***************************************************************************)
GcOff == [LatticeConfig EXCEPT !.gc_enabled = FALSE]

ForwardHeapTypes(tys) == HeapTypes(tys) \cup {Concrete(Len(tys))}

DrawnHeapTypes(tys) ==
    {Abstract(s, t) :
        s \in BOOLEAN,
        t \in {"Func", "Extern", "Exn", "Any", "None", "NoExtern", "NoFunc",
               "Eq", "Struct", "Array", "I31"}}
    \cup {Concrete(i) : i \in 0..Len(tys)}

DrawnValTypes(tys) ==
    {NumType("I32")}
    \cup {ValRef(RefType(n, h)) : n \in BOOLEAN, h \in DrawnHeapTypes(tys)}

DrawnFieldTypes(tys) ==
    {FieldType(e, m) : e \in {NumType("I8")} \cup DrawnValTypes(tys), m \in BOOLEAN}

\* The contents a composite type of the given kind can have.
Contents(tys, inner) ==
    CASE inner = "Array" ->
             {[fields |-> <<f>>, params |-> <<>>, results |-> <<>>] :
                  f \in DrawnFieldTypes(tys)}
      [] inner = "Struct" ->
             {[fields |-> fs, params |-> <<>>, results |-> <<>>] :
                  fs \in {<<>>} \cup {<<f>> : f \in DrawnFieldTypes(tys)}
                         \cup {<<f, g>> : f \in ExtraFieldTypes,
                                          g \in DrawnFieldTypes(tys)}}
      [] OTHER ->
             {[fields |-> <<>>, params |-> p, results |-> r] :
                  p \in {<<>>} \cup {<<v>> : v \in DrawnValTypes(tys)},
                  r \in {<<>>, <<NumType("I32")>>}}
             \cup
             {[fields |-> <<>>, params |-> p, results |-> <<v>>] :
                  p \in {<<>>, <<NumType("I32")>>}, v \in DrawnValTypes(tys)}

HeapCalls(fn, T) ==
    {[fn |-> fn, c |-> c, ty |-> t] :
        c \in {LatticeConfig, GcOff}, t \in ForwardHeapTypes(T.types)}

SubTypeCalls(T) ==
    UNION {{[fn |-> "arbitrary_sub_type_of_super_type", c |-> LatticeConfig,
             supertype |-> T.can_subtype[i],
             s |-> FullComposite(ty(T.types, T.can_subtype[i]).composite_type.inner,
                                 ty(T.types, T.can_subtype[i]).composite_type.shared,
                                 x.fields, x.params, x.results)] :
               x \in Contents(T.types,
                              ty(T.types, T.can_subtype[i]).composite_type.inner)} :
           i \in 1..Len(T.can_subtype)}

InitMatching ==
    /\ pc = "call"
    /\ cfg = LatticeConfig
    /\ err = "none"
    /\ \E T \in LatticeTypeStates :
           /\ types = T.types
           /\ rec_groups = T.rec_groups
           /\ super_to_sub_types = T.super_to_sub_types
           /\ can_subtype = T.can_subtype
           /\ array_types = T.array_types
           /\ func_types = T.func_types
           /\ struct_types = T.struct_types
           /\ n_call \in HeapCalls("arbitrary_matching_heap_type", T)
                         \cup HeapCalls("arbitrary_super_type_of_heap_type", T)
                         \cup SubTypeCalls(T)
    /\ imports = <<>> /\ num_imports = 0
    /\ tags = <<>> /\ funcs = <<>> /\ tables = <<>> /\ globals = <<>>
    /\ memories = <<>>
    /\ num_defined_tags = 0 /\ num_defined_funcs = 0
    /\ num_defined_memories = 0 /\ defined_tables = 0
    /\ defined_globals = <<>>
    /\ exports = <<>> /\ export_names = {}
    /\ type_size = 0
    /\ loop_count = 0 /\ overbudget = 0 /\ underflow = FALSE
    /\ start = NoIndex /\ elems = <<>> /\ data = <<>> /\ code = <<>>
    /\ interesting_values32 = <<>> /\ interesting_values64 = <<>>
    /\ twin_values32 = <<>> /\ twin_values64 = <<>>
    /\ bad_loop = FALSE
    /\ q_a = Abstract(FALSE, "Any") /\ q_b = Abstract(FALSE, "Any")
    /\ q_res = FALSE
    /\ NoGlobalsQuery
    /\ n_ret = [panic |-> FALSE]

ArbitraryMatchingHeapType ==
    /\ pc = "call"
    /\ n_call.fn = "arbitrary_matching_heap_type"
    /\ \E h \in arbitrary_matching_heap_type(n_call.c, TypeState, n_call.ty) :
           Return([h |-> h])

ArbitrarySuperTypeOfHeapType ==
    /\ pc = "call"
    /\ n_call.fn = "arbitrary_super_type_of_heap_type"
    /\ \E h \in arbitrary_super_type_of_heap_type(n_call.c, TypeState, n_call.ty) :
           Return([h |-> h])

ArbitrarySubTypeOfSuperType ==
    /\ pc = "call"
    /\ n_call.fn = "arbitrary_sub_type_of_super_type"
    /\ \E t \in matching_composite_type(n_call.c, TypeState, n_call.s),
          is_final \in BOOLEAN :
           Return([is_final |-> is_final, supertype |-> n_call.supertype,
                   composite_type |-> t,
                   depth |-> sub_depth(TypeState, n_call.supertype)])

NextMatching ==
    \/ ArbitraryMatchingHeapType
    \/ ArbitrarySuperTypeOfHeapType
    \/ ArbitrarySubTypeOfSuperType

SpecMatching == InitMatching /\ [][NextMatching]_vars

(***************************************************************************)
(* C23                                                                     *)
(***************************************************************************)
AfterSubType == pc = "returned" /\ n_call.fn = "arbitrary_sub_type_of_super_type"

\* Field t of the sub type against field s of the supertype.
FieldMatches(t, s) ==
    /\ t.mutable = s.mutable
    /\ s.mutable => t = s
    /\ ~s.mutable => val_type_is_sub_type(types, t.element_type, s.element_type)

FieldsMatch(t, s) ==
    /\ Len(t) >= Len(s)
    /\ \A i \in 1..Len(s) : FieldMatches(t[i], s[i])

SignatureMatches(t, s) ==
    /\ Len(t.params) = Len(s.params)
    /\ Len(t.results) = Len(s.results)
    /\ \A i \in 1..Len(s.params) :
           val_type_is_sub_type(types, s.params[i], t.params[i])
    /\ \A i \in 1..Len(s.results) :
           val_type_is_sub_type(types, t.results[i], s.results[i])

\* C23: the type that arbitrary_sub_type_of_super_type derives from a
\* supertype has the supertype's kind and shared bit; a struct keeps the
\* supertype's fields as a prefix, each with the same mutability, a mutable
\* one unchanged and an immutable one with a storage type that is a subtype;
\* an array's element follows the same rule; a function keeps the arities,
\* with parameters contravariant and results covariant.
C23_SubTypeMatches ==
    AfterSubType =>
        LET t == n_ret.composite_type
            s == n_call.s
        IN  /\ t.inner = s.inner
            /\ t.shared = s.shared
            /\ s.inner = "Struct" => FieldsMatch(t.fields, s.fields)
            /\ s.inner = "Array" =>
                   Len(t.fields) = 1 /\ FieldMatches(t.fields[1], s.fields[1])
            /\ s.inner = "Func" => SignatureMatches(t, s)

C23_Witness ==
    /\ AfterSubType
    /\ n_ret.composite_type # n_call.s
    /\ \/ /\ n_call.s.inner = "Struct"
          /\ Len(n_ret.composite_type.fields) > Len(n_call.s.fields)
          /\ Len(n_call.s.fields) > 0
          /\ n_ret.composite_type.fields[1] # n_call.s.fields[1]
       \/ /\ n_call.s.inner = "Func"
          /\ Len(n_call.s.params) > 0
          /\ n_ret.composite_type.params # n_call.s.params

(***************************************************************************)
(* C24                                                                     *)
(***************************************************************************)
\* The shared bit of a heap type: its own, or that of the type it names.
shared_bit(h) ==
    IF h.tag = "Abstract" THEN h.shared ELSE is_shared_type(types, h.idx)

ForwardReference(h) == h.tag = "Concrete" /\ h.idx >= Len(types)

OnlyItself ==
    ForwardReference(n_call.ty) \/ ~n_call.c.gc_enabled => n_ret.h = n_call.ty

SameSharedBit ==
    n_ret.h # n_call.ty => shared_bit(n_ret.h) = shared_bit(n_call.ty)

AfterMatchingHeapType ==
    pc = "returned" /\ n_call.fn = "arbitrary_matching_heap_type"

AfterSuperTypeOfHeapType ==
    pc = "returned" /\ n_call.fn = "arbitrary_super_type_of_heap_type"

MatchingIsSubType ==
    AfterMatchingHeapType =>
        /\ heap_type_is_sub_type(types, n_ret.h, n_call.ty)
        /\ SameSharedBit
        /\ OnlyItself

SuperKeepsShape == AfterSuperTypeOfHeapType => SameSharedBit /\ OnlyItself

\* The supertypes chosen for anything but the bottom of the continuation
\* types are supertypes by heap_type_is_sub_type.
SuperIsSuperTypeButNoCont ==
    /\ AfterSuperTypeOfHeapType
    /\ ~(n_call.ty.tag = "Abstract" /\ n_call.ty.ty = "NoCont")
    => heap_type_is_sub_type(types, n_call.ty, n_ret.h)

\* C24: arbitrary_matching_heap_type returns a subtype of its argument and
\* arbitrary_super_type_of_heap_type a supertype of it, by
\* heap_type_is_sub_type; the result has the argument's shared bit; for an
\* index that is not defined yet, or without GC, the result is the argument.
C24_CandidatesAgreeWithSubtyping ==
    /\ MatchingIsSubType
    /\ SuperKeepsShape
    /\ AfterSuperTypeOfHeapType => heap_type_is_sub_type(types, n_call.ty, n_ret.h)

(***************************************************************************)
(* arbitrary_extended_const, one iteration of its loop at a time.  The     *)
(* call's frame is kept in n_ret: instrs and needed as in the code, and u  *)
(* the number of bytes left in the Unstructured.  int_in_range(0..=3)      *)
(* takes one byte, a constant takes four or eight, fewer when fewer are    *)
(* left.  An instruction is written by its name; the value of a constant   *)
(* is left out.                                                            *)
(***************************************************************************)
MaxBytes == 12           \* longest Unstructured of a call of arbitrary_extended_const
MaxChoice == 1           \* largest answer of int_in_range(0..=3) that is drawn

LengthGuard == 10

take(u, n) == IF u > n THEN u - n ELSE 0

const_(t) == IF t = "I32" THEN "I32Const" ELSE "I64Const"

const_bytes(t) == IF t = "I32" THEN 4 ELSE 8

operator(t, choice) ==
    CASE choice = 1 -> IF t = "I32" THEN "I32Add" ELSE "I64Add"
      [] choice = 2 -> IF t = "I32" THEN "I32Sub" ELSE "I64Sub"
      [] OTHER -> IF t = "I32" THEN "I32Mul" ELSE "I64Mul"

Frame(instrs, needed, u) == [instrs |-> instrs, needed |-> needed, u |-> u]

\* One iteration under the answer the oracle gives when it is asked.
extended_const_step_NoGuard(t, f, answer) ==
    LET forced == f.u = 0
        choice == IF forced THEN 0 ELSE answer
        u == IF forced THEN f.u ELSE take(f.u, 1)
    IN  IF choice = 0
        THEN Frame(Append(f.instrs, const_(t)), f.needed - 1, take(u, const_bytes(t)))
        ELSE Frame(Append(f.instrs, operator(t, choice)), f.needed + 1, u)

extended_const_step(t, f, answer) ==
    LET forced == f.u = 0 \/ Len(f.instrs) > LengthGuard
        choice == IF forced THEN 0 ELSE answer
        u == IF forced THEN f.u ELSE take(f.u, 1)
    IN  IF choice = 0
        THEN Frame(Append(f.instrs, const_(t)), f.needed - 1, take(u, const_bytes(t)))
        ELSE Frame(Append(f.instrs, operator(t, choice)), f.needed + 1, u)

\* instrs.into_iter().rev()
rev(q) == [i \in 1..Len(q) |-> q[Len(q) + 1 - i]]

ConstCalls ==
    {[fn |-> "arbitrary_extended_const", ty |-> t, u |-> n] :
        t \in {"I32", "I64"}, n \in 0..MaxBytes}

InitConstExpr ==
    /\ pc = "call"
    /\ cfg = BaseConfig
    /\ EmptyBuild
    /\ q_a = Abstract(FALSE, "Any") /\ q_b = Abstract(FALSE, "Any")
    /\ q_res = FALSE
    /\ NoGlobalsQuery
    /\ n_call \in ConstCalls
    /\ n_ret = Frame(<<>>, 1, n_call.u)

ExtendedConstLoop ==
    /\ pc = "call"
    /\ n_ret.needed > 0
    /\ \E answer \in 0..MaxChoice :
           n_ret' = extended_const_step(n_call.ty, n_ret, answer)
    /\ UNCHANGED <<pc, err, cfg, typevars, impvars, entvars, expvars, type_size,
                   loop_count, overbudget, underflow, q_a, q_b, q_res, segvars,
                   valvars, bad_loop, g_ty, g_allow, g_res, n_call>>

ExtendedConstReturn ==
    /\ pc = "call"
    /\ n_ret.needed <= 0
    /\ Return([n_ret EXCEPT !.instrs = rev(@)])

NextConstExpr == ExtendedConstLoop \/ ExtendedConstReturn

SpecConstExpr ==
    InitConstExpr /\ [][NextConstExpr]_vars /\ WF_vars(NextConstExpr)

(***************************************************************************)
(* C25                                                                     *)
(***************************************************************************)
IsConst(i) == i \in {"I32Const", "I64Const"}

\* The height of the operand stack after the instructions of q, or -1 when
\* an operator finds fewer than two values.
RECURSIVE height(_, _)
height(q, h) ==
    IF q = <<>> THEN h
    ELSE IF IsConst(Head(q)) THEN height(Tail(q), h + 1)
    ELSE IF h < 2 THEN 0 - 1
    ELSE height(Tail(q), h - 1)

count(q, P(_)) == Cardinality({i \in 1..Len(q) : P(q[i])})

IsOperator(i) == ~IsConst(i)

Balanced ==
    pc = "returned" =>
        /\ height(n_ret.instrs, 0) = 1
        /\ count(n_ret.instrs, IsConst) = count(n_ret.instrs, IsOperator) + 1

\* No operator is chosen once more than LengthGuard instructions exist.
GuardedLength ==
    /\ \A i \in 1..Len(n_ret.instrs) :
           LET at == IF pc = "returned" THEN Len(n_ret.instrs) + 1 - i ELSE i
           IN  at > LengthGuard + 1 => IsConst(n_ret.instrs[i])
    /\ Len(n_ret.instrs) <= 2 * (LengthGuard + 1) + 1

\* C25: arbitrary_extended_const returns for every decision stream, an
\* exhausted one too; the instructions it returns, run in order, never
\* leave an operator short of two operands and leave one value; constants
\* are one more than operators; past the length guard only constants are
\* added.
C25_ExtendedConstBalanced ==
    /\ []Balanced
    /\ []GuardedLength
    /\ <>(pc = "returned")

C25_Witness ==
    /\ pc = "returned"
    /\ Len(n_ret.instrs) = 2 * (LengthGuard + 1) + 1
    /\ n_call.u = MaxBytes

(***************************************************************************)
(* C26                                                                     *)
(***************************************************************************)
\* Generation without a template module.
WithoutTemplate == ~cfg.module_shape.present /\ ~cfg.available_imports.present

\* C26: without a template module no index space exceeds its ceiling at
\* any point of the build, imported and defined entities together: tags,
\* functions, tables, memories, globals, types, and the imports themselves.
C26_WithinCeilings ==
    WithoutTemplate =>
        /\ Len(tags) <= cfg.max_tags
        /\ Len(funcs) <= cfg.max_funcs
        /\ Len(tables) <= cfg.max_tables
        /\ Len(memories) <= cfg.max_memories
        /\ Len(globals) <= cfg.max_globals
        /\ Len(types) <= cfg.max_types
        /\ num_imports <= cfg.max_imports

\* A finished build filled the function space with an import and a
\* definition.
C26_Witness ==
    /\ WithoutTemplate
    /\ pc = "built"
    /\ num_imports > 0
    /\ num_defined_funcs > 0
    /\ Len(funcs) = cfg.max_funcs
    /\ Len(funcs) > num_defined_funcs
    /\ Len(types) = cfg.max_types

(***************************************************************************)
(* The naming of imports in arbitrary_imports, one step at a time.  The    *)
(* frame of the call is kept in n_ret: import_strings as in the code, the  *)
(* names of the imports pushed so far, each with the pair the oracle gave  *)
(* for it, and the pair being named.  The entity types play no part.       *)
(***************************************************************************)
MaxNamedImports == 3     \* imports that one call of arbitrary_imports names

\* unique_import_strings: the pairs the oracle is asked for.
ImportPairs ==
    {[module |-> m, field |-> f] :
        m \in {<<"m">>}, f \in {<<"a">>, <<"a", "1">>, <<"a", "2">>}}

insert_Forgotten(import_strings, import_pair) == import_strings

insert(import_strings, import_pair) == import_strings \cup {import_pair}

NameFrame(at, import_strings, named, import_pair, drawn) ==
    [at |-> at, import_strings |-> import_strings, named |-> named,
     import_pair |-> import_pair, drawn |-> drawn]

InitImportNames ==
    /\ pc = "call"
    /\ cfg = BaseConfig
    /\ EmptyBuild
    /\ q_a = Abstract(FALSE, "Any") /\ q_b = Abstract(FALSE, "Any")
    /\ q_res = FALSE
    /\ NoGlobalsQuery
    /\ n_call \in {[fn |-> "arbitrary_imports", duplicate_imports_behavior |-> b] :
                     b \in {"Allowed", "Disallowed"}}
    /\ \E p \in ImportPairs : n_ret = NameFrame("loop", {}, <<>>, p, p)

NameStep(f) ==
    /\ n_ret' = f
    /\ UNCHANGED <<pc, err, cfg, typevars, impvars, entvars, expvars, type_size,
                   loop_count, overbudget, underflow, q_a, q_b, q_res, segvars,
                   valvars, bad_loop, g_ty, g_allow, g_res, n_call>>

\* let mut import_pair = unique_import_strings(1_000, u)?
DrawImportPair ==
    /\ pc = "call" /\ n_call.fn = "arbitrary_imports"
    /\ n_ret.at = "loop"
    /\ Len(n_ret.named) < MaxNamedImports
    /\ \E p \in ImportPairs :
           NameStep([n_ret EXCEPT
                         !.import_pair = p, !.drawn = p,
                         !.at = IF n_call.duplicate_imports_behavior = "Disallowed"
                                THEN "while" ELSE "push"])

\* One turn of the while loop: write!(&mut import_pair.1, "{}", len)
SuffixImportField ==
    /\ pc = "call" /\ n_call.fn = "arbitrary_imports"
    /\ n_ret.at = "while"
    /\ n_ret.import_pair \in n_ret.import_strings
    /\ NameStep([n_ret EXCEPT
                     !.import_pair.field =
                         @ \o Decimal(Cardinality(n_ret.import_strings))])

InsertImportPair ==
    /\ pc = "call" /\ n_call.fn = "arbitrary_imports"
    /\ n_ret.at = "while"
    /\ n_ret.import_pair \notin n_ret.import_strings
    /\ NameStep([n_ret EXCEPT
                     !.import_strings = insert(@, n_ret.import_pair),
                     !.at = "push"])

PushNamedImport ==
    /\ pc = "call" /\ n_call.fn = "arbitrary_imports"
    /\ n_ret.at = "push"
    /\ NameStep([n_ret EXCEPT
                     !.named = Append(@, [name |-> n_ret.import_pair,
                                          drawn |-> n_ret.drawn]),
                     !.at = "loop"])

ImportNamesReturn ==
    /\ pc = "call" /\ n_call.fn = "arbitrary_imports"
    /\ n_ret.at = "loop"
    /\ Return(n_ret)

NextImportNames ==
    \/ DrawImportPair
    \/ SuffixImportField
    \/ InsertImportPair
    \/ PushNamedImport
    \/ ImportNamesReturn

SpecImportNames ==
    InitImportNames /\ [][NextImportNames]_vars /\ WF_vars(NextImportNames)

(***************************************************************************)
(* C27                                                                     *)
(***************************************************************************)
NoDuplicatePairs ==
    n_call.duplicate_imports_behavior = "Disallowed" =>
        \A i, j \in 1..Len(n_ret.named) :
            i # j => n_ret.named[i].name # n_ret.named[j].name

NamesUnchanged ==
    n_call.duplicate_imports_behavior = "Allowed" =>
        \A i \in 1..Len(n_ret.named) : n_ret.named[i].name = n_ret.named[i].drawn

\* C27: under Disallowed no two imports of arbitrary_imports share a
\* (module, field) pair and the loop that appends the number to the field
\* ends for every import; under Allowed the names are the ones drawn.
C27_ImportNames ==
    /\ []NoDuplicatePairs
    /\ []NamesUnchanged
    /\ (n_ret.at = "while") ~> (n_ret.at = "push")

\* An import went round the suffix loop twice.
C27_Witness ==
    /\ pc = "returned"
    /\ n_call.duplicate_imports_behavior = "Disallowed"
    /\ \E i \in 1..Len(n_ret.named) :
           Len(n_ret.named[i].name.field) = Len(n_ret.named[i].drawn.field) + 2

(***************************************************************************)
(* The two loops of arbitrary_types under an Unstructured of n_ret.u       *)
(* bytes, one iteration at a time.  While bytes are left the oracle may    *)
(* answer anything and every answer takes a byte; once they are used up    *)
(* it answers with the default: int_in_range its lower end, choose the     *)
(* first entry, ratio true (it compares the lower end 1 with the           *)
(* numerator 1) and u.arbitrary().unwrap_or(false) false.  The sub types   *)
(* of a new group are all alike: the loops look at their number only.      *)
(***************************************************************************)
MaxLoopTypes == 3        \* largest config.max_types of a run of the loops
MaxLoopBytes == 3        \* longest Unstructured of a run of the loops

TypesLoopConfigs ==
    {[BaseConfig EXCEPT !.gc_enabled = g, !.min_types = a, !.max_types = b] :
        g \in BOOLEAN, a \in 0..MaxLoopTypes, b \in 1..MaxLoopTypes}

\* The answers of the oracle to a question with the given default.
answers(u, all, default) == IF u = 0 THEN {default} ELSE all

LoopDecision ==
    [sub |-> FALSE, choice |-> 0, is_final |-> FALSE, inner |-> "Func",
     shared |-> FALSE, sig |-> NoSig]

Outcome(T, u) == [T |-> T, u |-> u]

\* arbitrary_rec_group: every outcome of one call.
arbitrary_rec_group(c, T, u, allow_empty) ==
    LET cloning == IF c.gc_enabled /\ Len(T.rec_groups) > 0
                   THEN answers(u, BOOLEAN, TRUE) ELSE {FALSE}
        u1 == IF c.gc_enabled /\ Len(T.rec_groups) > 0 THEN take(u, 1) ELSE u
        sizes == IF c.gc_enabled
                 THEN answers(u1, (IF allow_empty THEN 0 ELSE 1)..(c.max_types - Len(T.types)),
                              IF allow_empty THEN 0 ELSE 1)
                 ELSE {1}
        u2 == IF c.gc_enabled THEN take(u1, 1) ELSE u1
    IN  (IF TRUE \in cloning
         THEN {Outcome(clone_rec_group(c, T, T.rec_groups[g], allow_empty), take(u1, 1)) :
                   g \in answers(u1, 1..Len(T.rec_groups), 1)}
         ELSE {})
        \cup
        (IF FALSE \in cloning
         THEN {Outcome(new_rec_group(c, T, [i \in 1..n |-> LoopDecision]), take(u2, n)) :
                   n \in sizes}
         ELSE {})

InitTypesLoop ==
    /\ pc = "types"
    /\ cfg \in {c \in TypesLoopConfigs : c.min_types <= c.max_types}
    /\ EmptyBuild
    /\ q_a = Abstract(FALSE, "Any") /\ q_b = Abstract(FALSE, "Any")
    /\ q_res = FALSE
    /\ NoGlobalsQuery
    /\ n_call \in {[fn |-> "arbitrary_types", u |-> n] : n \in 0..MaxLoopBytes}
    /\ n_ret = [u |-> n_call.u]

TypesStep(T, u, next) ==
    /\ SetTypeState(T)
    /\ n_ret' = [u |-> u]
    /\ pc' = next
    /\ UNCHANGED <<err, cfg, impvars, entvars, expvars, type_size,
                   loop_count, overbudget, underflow, q_a, q_b, q_res, segvars,
                   valvars, bad_loop, g_ty, g_allow, g_res, n_call>>

\* while self.types.len() < self.config.min_types
MinTypesLoop ==
    /\ pc = "types"
    /\ Len(types) < cfg.min_types
    /\ \E o \in arbitrary_rec_group(cfg, TypeState, n_ret.u, FALSE) :
           TypesStep(o.T, o.u, "types")

\* while self.types.len() < self.config.max_types, the oracle keeping on
MoreTypesLoop ==
    /\ pc = "types"
    /\ ~(Len(types) < cfg.min_types)
    /\ Len(types) < cfg.max_types
    /\ TRUE \in answers(n_ret.u, BOOLEAN, FALSE)
    /\ \E o \in arbitrary_rec_group(cfg, TypeState, take(n_ret.u, 1), TRUE) :
           TypesStep(o.T, o.u, "types")

TypesLoopReturn ==
    /\ pc = "types"
    /\ ~(Len(types) < cfg.min_types)
    /\ TypesStep(TypeState,
                 IF Len(types) < cfg.max_types THEN take(n_ret.u, 1) ELSE n_ret.u,
                 "returned")

NextTypesLoop == MinTypesLoop \/ MoreTypesLoop \/ TypesLoopReturn

SpecTypesLoop ==
    InitTypesLoop /\ [][NextTypesLoop]_vars /\ WF_vars(NextTypesLoop)

(***************************************************************************)
(* C28                                                                     *)
(***************************************************************************)
\* The second loop alone ends: every iteration of it takes a byte.
MoreLoopEnds ==
    (pc = "types" /\ ~(Len(types) < cfg.min_types)) ~> (pc = "returned")

\* Without GC every call adds one type and the first loop ends too.
PlainLoopEnds == ~cfg.gc_enabled => <>(pc = "returned")

\* C28: arbitrary_types returns for every configuration with
\* min_types <= max_types and every decision stream, an exhausted one too:
\* the loop that runs while types.len() < min_types gains a type with every
\* call that returns Ok.
C28_TypesTerminates == <>(pc = "returned")

(***************************************************************************)
(* C29                                                                     *)
(***************************************************************************)
\* The number of supertype links from each type to the end of its chain,
\* computed from the front of the list; a supertype that is not an earlier
\* type makes the chain endless, written as a count above every depth.
Endless == MAX_SUBTYPING_DEPTH + ChainLen + 1

RECURSIVE ChainSteps(_, _)
ChainSteps(i, acc) ==
    IF i > Len(types) THEN acc
    ELSE LET sup == types[i].supertype
             n == IF sup = NoSuper THEN 0
                  ELSE IF sup < 0 \/ sup >= i - 1 THEN Endless
                  ELSE IF acc[sup + 1] = Endless THEN Endless
                  ELSE acc[sup + 1] + 1
         IN  ChainSteps(i + 1, Append(acc, n))

\* C29: the supertype of every type has a smaller index than the type, and
\* the chain of supertypes from a type ends, at a type without a supertype,
\* after at most as many steps as the type's depth.
C29_SupertypesBelow ==
    LET steps == ChainSteps(1, <<>>)
    IN  \A i \in 1..Len(types) :
            /\ types[i].supertype # NoSuper =>
                   types[i].supertype >= 0 /\ types[i].supertype < i - 1
            /\ steps[i] <= types[i].depth

\* A generated type two links above the end of its chain, and a clone that
\* kept the supertype of its original.
C29_Witness ==
    /\ \E i \in 1..Len(types) :
           /\ i > TemplateTypeCount
           /\ types[i].supertype # NoSuper
           /\ ty(types, types[i].supertype).supertype # NoSuper
    /\ \E i \in 1..Len(types) :
           /\ types[i].supertype # NoSuper
           /\ types[i].supertype < i - 2

(***************************************************************************)
(* C30                                                                     *)
(***************************************************************************)
ImportsOfKind(kind) == SelectSeq(imports, LAMBDA im : im.entity_type.kind = kind)

\* The entry that an imported entity has in its index space.
EntryOf(e) ==
    CASE e.kind = "Func" -> [ty |-> e.idx, sig |-> e.sig]
      [] e.kind = "Tag" -> [func_type_idx |-> e.idx, func_type |-> e.sig]
      [] OTHER -> e.ty

\* The imports of the kind are the first entries of the index space, in
\* the order of the import section, and the rest are the defined ones.
ImportsFirst(kind, space, defined) ==
    LET imported == ImportsOfKind(kind)
    IN  /\ Len(space) = Len(imported) + defined
        /\ \A j \in 1..Len(imported) :
               j <= Len(space) /\ space[j] = EntryOf(imported[j].entity_type)

DefinedGlobalsNamed ==
    \A k \in 1..Len(defined_globals) :
        /\ defined_globals[k] >= Len(globals) - Len(defined_globals)
        /\ defined_globals[k] < Len(globals)

OneBodyPerDefinedFunc ==
    pc = "built" =>
        /\ Len(code) = num_defined_funcs
        /\ \A k \in 1..Len(code) :
               code[k] = funcs[Len(ImportsOfKind("Func")) + k].ty

\* C30: in every index space the imported entities come before the defined
\* ones and the counters of defined entities match; defined_globals names
\* defined globals only; a finished build has one body for each defined
\* function, in the order of the function indices.
C30_ImportsBeforeDefined ==
    err = "none" =>
        /\ ImportsFirst("Func", funcs, num_defined_funcs)
        /\ ImportsFirst("Tag", tags, num_defined_tags)
        /\ ImportsFirst("Table", tables, defined_tables)
        /\ ImportsFirst("Memory", memories, num_defined_memories)
        /\ ImportsFirst("Global", globals, Len(defined_globals))
        /\ DefinedGlobalsNamed
        /\ OneBodyPerDefinedFunc

(***************************************************************************)
(* build() runs imports_exports_from_module_shape and then                 *)
(* arbitrary_imports_from_available whenever the configuration carries the *)
(* respective template, so a configuration may carry both.  The builds     *)
(* below add such a configuration to the ones above.                       *)
(***************************************************************************)

\* Offered imports: one function of the only type of the template.
OfferedFunc ==
    [present |-> TRUE, recgrps |-> <<1>>, types |-> <<TFunc(SigI)>>,
     imports |-> <<TImport(<<"e">>, <<"q">>, "Func", 0, "-")>>,
     funcs |-> <<>>, tags |-> <<>>, tables |-> <<>>, memories |-> <<>>,
     globals |-> <<>>, exports |-> <<>>]

BothTemplatesConfig ==
    [BaseConfig EXCEPT !.module_shape = ShapeTemplate,
                       !.available_imports = OfferedFunc,
                       !.max_types = 3, !.max_type_size = 4 * MaxBudget,
                       !.max_imports = MaxImports + 2,
                       !.max_exports = MaxExports + 4,
                       !.max_funcs = 4, !.max_globals = MaxEntities,
                       !.max_tables = 1, !.max_memories = 1]

InitTemplates ==
    /\ cfg \in Configs \cup {BothTemplatesConfig}
    /\ pc = "module_shape" /\ EmptyBuild /\ NoQuery

SpecTemplates == InitTemplates /\ [][Next]_vars
====
